---- MODULE Spec2Model ----
(***************************************************************************)
(* Order-flow component: rolling-window aggregator, smoothed share,        *)
(* particle pool (components/orderflow/OrderFlowCanvas.tsx) and the two    *)
(* event sources (lib/orderflow: synthetic RxJS stream, Hyperliquid trades *)
(* hook and socket client).                                                *)
(*                                                                         *)
(* Numbers.  Clock values are milliseconds.  Volumes and sums are          *)
(* integers (finite JS numbers without a fractional part, on which + and - *)
(* are exact).  Shares are JS floats in [0,1]; they are kept here in fixed *)
(* point, ShareScale units to 1, every product/quotient rounded to the     *)
(* nearest unit.                                                           *)
(***************************************************************************)
EXTENDS Integers, Sequences, FiniteSets, TLC

\* ------------------------------------------------------------------ bounds
MaxSteps     == 6      \* callbacks and clock steps in one run
MaxBurstSteps == 5     \* the same, in the runs that fill the particle pool
MaxDecaySteps == 19    \* the same, in the runs that let one trade age out
MaxClientSteps == 9    \* calls and socket or timer events in one run of the client
MaxRouteSteps == 4     \* the same, in the runs that deliver frames to the registry
MaxGeometrySteps == 11 \* the same, in the runs that sample the ribbon edges
MaxUnsubSteps == 8     \* the same, in the runs that unsubscribe and reconnect
MaxSeenSteps == 3      \* the same, in the runs that fill the recent-id set
MaxMisuseSteps == 4    \* the same, in the runs with values out of range
MaxSourceSteps == 7    \* the same, in the runs of the two sources with the canvas

\* ------------------------------------------------------- program constants
maxParticles   == 400  \* OrderFlowCanvas.tsx:31
emaAlphaTenths == 2    \* OrderFlowCanvas.tsx:32  emaAlpha = 0.2
maxSeenIds     == 500  \* useHyperliquidStream.ts:50
keepSeenIds    == 400  \* useHyperliquidStream.ts:52
reconnectDelay    == 1000   \* useHyperliquidStream.ts:253
maxReconnectDelay == 30000  \* useHyperliquidStream.ts:254
MAX_DROP_LOGS     == 5      \* useHyperliquidStream.ts:248

\* ----------------------------------------------------------- input domains
StartClock   == 10 * 1000            \* Date.now() at mount
TickSteps    == {3000, 6000}               \* time that passes between two callbacks
WindowChoices == {5, 10}             \* windowSeconds prop (slider 5..120 step 5)
Sides        == {"buy", "sell"}
Volumes      == {100}                \* generateOrder volumes (integers)
Durations    == {1400}               \* 1400 + Math.random() * 800, in [1400,2200)
TradeIds     == {1, 2}               \* exchange trade ids
NoTid        == 0 - 1                \* trade.tid and trade.hash both undefined
GenBase      == 1000 * 1000          \* ids the code draws at random are GenBase + n

Keys         == {"trades:BTC", "l2Book:BTC"}  \* subscription keys
RouteKeys    == {"trades:BTC", "allMids", "candle:BTC:1m", "userFills:u1"}
None         == "none"               \* a property a JSON object does not have
ShareScale   == 10 * 1000            \* fixed-point units per 1.0
Half         == ShareScale \div 2    \* 0.5
Epsilon      == ShareScale \div 1000 \* 0.001

VARIABLES
  now,          \* Date.now(); performance.now() is now - StartClock
  windowMs,     \* windowMsRef.current
  queue,        \* queueRef.current : Seq(OrderEvent)
  totals,       \* totalsRef.current : [buy, sell]
  counts,       \* countsRef.current : [buy, sell]
  stats,        \* statsRef.current : [buyShare, sellShare]
  particles,    \* particlesRef.current : Seq(Particle)
  lastSeenIds,  \* lastSeenIdsRef.current : Set<string> in insertion order
  streamMode,   \* "synthetic" | "live"
  obs,          \* observations of the run (history, not program state)
  client,       \* the fields of the HyperliquidWebSocket instance
  net,          \* its sockets, promises and timers, and observations of the run
  src           \* the synthetic stream, the live hook and the animation loop

canvasVars == <<now, windowMs, queue, totals, counts, stats, particles,
                lastSeenIds, streamMode, obs>>

vars == <<now, windowMs, queue, totals, counts, stats, particles,
          lastSeenIds, streamMode, obs, client, net, src>>

\* ------------------------------------------------------------------ helpers
Max(a, b) == IF a >= b THEN a ELSE b
Min(a, b) == IF a <= b THEN a ELSE b
Abs(a)    == IF a >= 0 THEN a ELSE 0 - a
\* nearest integer to a / b, for a >= 0 and b > 0
RoundDiv(a, b) == (2 * a + b) \div (2 * b)
Range(s)  == {s[i] : i \in 1 .. Len(s)}
LastN(s, n) == IF Len(s) > n THEN SubSeq(s, Len(s) - n + 1, Len(s)) ELSE s

RECURSIVE SideSum(_, _)
\* sum of the volumes of the events of side sd in the sequence q
SideSum(q, sd) ==
  IF q = <<>> THEN 0
  ELSE (IF Head(q).side = sd THEN Head(q).volume ELSE 0) + SideSum(Tail(q), sd)

Fresh(q, cutoff) == SelectSeq(q, LAMBDA e : e.timestamp >= cutoff)

\* ------------------------------------------------- WindowAggregator (canvas)
\* faulty variant: the expired event is popped but its volume is not subtracted
SubtractExpiredNone(t, e) == t

\* pruneWindow loop body: subtract the expired event, clamp both sums at 0
SubtractExpired(t, e) ==
  LET b == IF e.side = "buy" THEN t.buy - e.volume ELSE t.buy
      s == IF e.side = "buy" THEN t.sell ELSE t.sell - e.volume
  IN  [buy |-> Max(0, b), sell |-> Max(0, s)]

\* the iterations of the pruneWindow loop over the events it pops, in order
\* (by halves, the first half reduced to a value before the second starts, so
\* that long queues do not nest deeply)
RECURSIVE SubtractAll(_, _)
SubtractAll(t, es) ==
  IF es = <<>> THEN t
  ELSE IF Len(es) = 1 THEN SubtractExpired(t, es[1])
  ELSE LET h   == Len(es) \div 2
           mid == SubtractAll(t, SubSeq(es, 1, h))
       IN  IF mid = mid THEN SubtractAll(mid, SubSeq(es, h + 1, Len(es))) ELSE mid

\* how many events the loop `while (queue.length && queue[0].timestamp < cutoff)`
\* pops: the events before the first one that is not older than cutoff
Expiring(q, cutoff) ==
  LET keep == {i \in 1 .. Len(q) : q[i].timestamp >= cutoff}
  IN  IF keep = {} THEN Len(q)
      ELSE (CHOOSE i \in keep : \A k \in keep : i <= k) - 1

\* faulty variant: an `if` in place of the `while`, at most one event leaves
PruneWindowOnce(q, t, cutoff) ==
  LET n == Min(1, Expiring(q, cutoff))
  IN  [queue |-> SubSeq(q, n + 1, Len(q)),
       totals |-> SubtractAll(t, SubSeq(q, 1, n))]

\* faulty variant: the expired events leave the queue but stay in the sums
PruneWindowKeepSums(q, t, cutoff) ==
  [queue |-> SubSeq(q, Expiring(q, cutoff) + 1, Len(q)), totals |-> t]

\* pruneWindow(): cutoff = Date.now() - windowMs; pops from the head only
PruneWindow(q, t, cutoff) ==
  LET n == Expiring(q, cutoff)
  IN  [queue |-> SubSeq(q, n + 1, Len(q)),
       totals |-> SubtractAll(t, SubSeq(q, 1, n))]

\* faulty variant: sums accumulated on top of the running totals
RecomputeTotalsOnTop(q, t, cutoff) ==
  [buy  |-> Max(0, t.buy + SideSum(Fresh(q, cutoff), "buy")),
   sell |-> Max(0, t.sell + SideSum(Fresh(q, cutoff), "sell"))]

\* recomputeTotals(): from scratch over the queued events at or after cutoff
RecomputeTotals(q, t, cutoff) ==
  [buy  |-> Max(0, SideSum(Fresh(q, cutoff), "buy")),
   sell |-> Max(0, SideSum(Fresh(q, cutoff), "sell"))]

\* faulty variant: no guard on an empty window: 0/0 read as 0
RawBuyNoGuard(t) ==
  IF t.buy + t.sell > 0 THEN RoundDiv(t.buy * ShareScale, t.buy + t.sell) ELSE 0

\* rawBuy = total > 0 ? buy / total : 0.5
RawBuy(t) ==
  IF t.buy + t.sell > 0 THEN RoundDiv(t.buy * ShareScale, t.buy + t.sell) ELSE Half

\* faulty variant: the two smoothing weights exchanged
SmoothedBuySwapped(raw, prev) ==
  Min(ShareScale,
      Max(0, RoundDiv((10 - emaAlphaTenths) * raw + emaAlphaTenths * prev, 10)))

\* buyShare = min(1, max(0, emaAlpha * rawBuy + (1 - emaAlpha) * prev))
SmoothedBuy(raw, prev) ==
  Min(ShareScale,
      Max(0, RoundDiv(emaAlphaTenths * raw + (10 - emaAlphaTenths) * prev, 10)))

\* faulty variant: any change is published, however small
PublishesAnyChange(force, next, cur) ==
  \/ force
  \/ next.buyShare # cur.buyShare
  \/ next.sellShare # cur.sellShare

\* the publish test of updateStats
Publishes(force, next, cur) ==
  \/ force
  \/ Abs(next.buyShare - cur.buyShare) > Epsilon
  \/ Abs(next.sellShare - cur.sellShare) > Epsilon

\* faulty variant: sellShare taken from the raw share, not the smoothed one
NextStatsSellFromRaw(raw, prev) ==
  [buyShare |-> SmoothedBuy(raw, prev), sellShare |-> ShareScale - raw]

\* nextStats = { buyShare, sellShare: 1 - buyShare }
NextStats(raw, prev) ==
  [buyShare |-> SmoothedBuy(raw, prev),
   sellShare |-> ShareScale - SmoothedBuy(raw, prev)]

\* faulty variant: the share is computed from the sums before the prune
UpdateStatsShareFirst(q, t, st, cutoff, force) ==
  LET p    == PruneWindow(q, t, cutoff)
      raw  == RawBuy(t)
      next == NextStats(raw, st.buyShare)
      buy  == next.buyShare
      pub  == Publishes(force, next, st)
  IN  [queue |-> p.queue, totals |-> p.totals,
       stats |-> IF pub THEN next ELSE st,
       raw |-> raw, prev |-> st.buyShare, next |-> buy, published |-> pub]

\* updateStats(force) on queue q, sums t, stored stats st
UpdateStats(q, t, st, cutoff, force) ==
  LET p    == PruneWindow(q, t, cutoff)
      raw  == RawBuy(p.totals)
      next == NextStats(raw, st.buyShare)
      buy  == next.buyShare
      pub  == Publishes(force, next, st)
  IN  [queue |-> p.queue, totals |-> p.totals,
       stats |-> IF pub THEN next ELSE st,
       raw |-> raw, prev |-> st.buyShare, next |-> buy, published |-> pub]

\* ------------------------------------------------------------- ParticlePool
\* faulty variant: on overflow the newest entries are cut off instead of the oldest
SpawnParticleDropNewest(ps, p) ==
  LET a == Append(ps, p)
  IN  IF Len(a) > maxParticles THEN SubSeq(a, 1, maxParticles) ELSE a

\* spawnParticle(): push, then splice(0, length - maxParticles)
SpawnParticle(ps, p) ==
  LET a == Append(ps, p)
  IN  IF Len(a) > maxParticles
      THEN SubSeq(a, Len(a) - maxParticles + 1, Len(a))
      ELSE a

\* t = min(1, (now - birth) / duration) < 1
Alive(p, perfNow) == perfNow - p.birth < p.duration

\* drawFrame(): keep the particles with t < 1, in order
AdvanceParticles(ps, perfNow) == SelectSeq(ps, LAMBDA p : Alive(p, perfNow))

\* ------------------------------------------------------- onOrderReceived
\* State of the component as one record, so that handlers compose.
Component ==
  [queue |-> queue, totals |-> totals, counts |-> counts, stats |-> stats,
   particles |-> particles, lastSeenIds |-> lastSeenIds, obs |-> obs]

\* bookkeeping after a prune: how many events it popped, and whether it was
\* a second prune at an unchanged clock, window and queue
NotePrune(o, before, after, clock, isRepeat) ==
  [o EXCEPT !.prunedAt = clock,
            !.prevEvicted = IF isRepeat THEN o.evicted ELSE 0,
            !.evicted = Len(before) - Len(after),
            !.repeated = isRepeat]

NoteShare(o, u) ==
  [o EXCEPT !.raw = u.raw, !.prev = u.prev, !.next = u.next,
            !.published = u.published]

\* faulty variant: the count of either side grows with every event
OnOrderReceivedBothCounts(c, order, dur, clock, cutoff) ==
  LET q1 == Append(c.queue, order)
      t1 == IF order.side = "buy"
            THEN [c.totals EXCEPT !.buy = @ + order.volume]
            ELSE [c.totals EXCEPT !.sell = @ + order.volume]
      n1 == [buy |-> c.counts.buy + 1, sell |-> c.counts.sell + 1]
      t2 == [buy |-> Max(0, t1.buy), sell |-> Max(0, t1.sell)]
      p  == [id |-> order.id, side |-> order.side, volume |-> order.volume,
             birth |-> clock - StartClock, duration |-> dur,
             seq |-> c.obs.spawned + 1]
      a  == Append(c.particles, p)
      ps == SpawnParticle(c.particles, p)
      gone == IF ps = a THEN {}
              ELSE {a[i].seq : i \in 1 .. Len(a)} \ {ps[i].seq : i \in 1 .. Len(ps)}
      u  == UpdateStats(q1, t2, c.stats, cutoff, FALSE)
      o1 == [c.obs EXCEPT !.spawned = @ + 1,
                          !.calls = @ + 1,
                          !.justSpawned = TRUE,
                          !.lastGone = Cardinality(gone),
                          !.maxEvictedSeq =
                             IF gone = {} THEN @
                             ELSE Max(@, CHOOSE m \in gone : \A g \in gone : g <= m)]
  IN  [c EXCEPT !.queue = u.queue, !.totals = u.totals, !.counts = n1,
                !.stats = u.stats, !.particles = ps,
                !.obs = NoteShare(NotePrune(o1, q1, u.queue, clock, FALSE), u)]

\* number of the events of side sd in the sequence q
CountSide(q, sd) == Cardinality({i \in 1 .. Len(q) : q[i].side = sd})

\* faulty variant: the counts are those of the events now in the window
OnOrderReceivedWindowCounts(c, order, dur, clock, cutoff) ==
  LET q1 == Append(c.queue, order)
      t1 == IF order.side = "buy"
            THEN [c.totals EXCEPT !.buy = @ + order.volume]
            ELSE [c.totals EXCEPT !.sell = @ + order.volume]
      n1 == IF order.side = "buy"
            THEN [c.counts EXCEPT !.buy = @ + 1]
            ELSE [c.counts EXCEPT !.sell = @ + 1]
      t2 == [buy |-> Max(0, t1.buy), sell |-> Max(0, t1.sell)]
      p  == [id |-> order.id, side |-> order.side, volume |-> order.volume,
             birth |-> clock - StartClock, duration |-> dur,
             seq |-> c.obs.spawned + 1]
      a  == Append(c.particles, p)
      ps == SpawnParticle(c.particles, p)
      gone == IF ps = a THEN {}
              ELSE {a[i].seq : i \in 1 .. Len(a)} \ {ps[i].seq : i \in 1 .. Len(ps)}
      u  == UpdateStats(q1, t2, c.stats, cutoff, FALSE)
      o1 == [c.obs EXCEPT !.spawned = @ + 1,
                          !.calls = @ + 1,
                          !.justSpawned = TRUE,
                          !.lastGone = Cardinality(gone),
                          !.maxEvictedSeq =
                             IF gone = {} THEN @
                             ELSE Max(@, CHOOSE m \in gone : \A g \in gone : g <= m)]
  IN  [c EXCEPT !.queue = u.queue, !.totals = u.totals, !.counts = [buy  |-> CountSide(u.queue, "buy"),
                            sell |-> CountSide(u.queue, "sell")],
                !.stats = u.stats, !.particles = ps,
                !.obs = NoteShare(NotePrune(o1, q1, u.queue, clock, FALSE), u)]

\* onOrderReceived(order) of the canvas, dur = the lifetime drawn for the particle
OnOrderReceived(c, order, dur, clock, cutoff) ==
  LET q1 == Append(c.queue, order)
      t1 == IF order.side = "buy"
            THEN [c.totals EXCEPT !.buy = @ + order.volume]
            ELSE [c.totals EXCEPT !.sell = @ + order.volume]
      n1 == IF order.side = "buy"
            THEN [c.counts EXCEPT !.buy = @ + 1]
            ELSE [c.counts EXCEPT !.sell = @ + 1]
      t2 == [buy |-> Max(0, t1.buy), sell |-> Max(0, t1.sell)]
      p  == [id |-> order.id, side |-> order.side, volume |-> order.volume,
             birth |-> clock - StartClock, duration |-> dur,
             seq |-> c.obs.spawned + 1]
      a  == Append(c.particles, p)
      ps == SpawnParticle(c.particles, p)
      gone == IF ps = a THEN {}
              ELSE {a[i].seq : i \in 1 .. Len(a)} \ {ps[i].seq : i \in 1 .. Len(ps)}
      u  == UpdateStats(q1, t2, c.stats, cutoff, FALSE)
      o1 == [c.obs EXCEPT !.spawned = @ + 1,
                          !.calls = @ + 1,
                          !.justSpawned = TRUE,
                          !.lastGone = Cardinality(gone),
                          !.maxEvictedSeq =
                             IF gone = {} THEN @
                             ELSE Max(@, CHOOSE m \in gone : \A g \in gone : g <= m)]
  IN  [c EXCEPT !.queue = u.queue, !.totals = u.totals, !.counts = n1,
                !.stats = u.stats, !.particles = ps,
                !.obs = NoteShare(NotePrune(o1, q1, u.queue, clock, FALSE), u)]

\* ------------------------------------------------------------ live source
\* A raw field of an incoming trade: Number(x) is x.val, or NaN when ~x.num
Num(v)  == [num |-> TRUE, val |-> v]
NotNum  == [num |-> FALSE, val |-> 0]

\* norm.startsWith("b") on the trimmed, lower-cased side string
StartsWithB(sideStr) == sideStr \in {"B", "b", "buy", "Buy", "BUY", "bid"}

\* What the first trade of a frame asks for: whether its size is a number, and
\* the volume and side its event is to have (size x price, or the size alone
\* when the price is not a number).
NoFirst == [sized |-> FALSE, volume |-> 0, side |-> "none"]
FirstOf(batch) ==
  IF batch = <<>> THEN NoFirst
  ELSE [sized  |-> batch[1].sz.num,
        volume |-> IF batch[1].px.num THEN batch[1].sz.val * batch[1].px.val
                   ELSE batch[1].sz.val,
        side   |-> IF StartsWithB(batch[1].side) THEN "buy" ELSE "sell"]

\* faulty variant: a field that is not a number is read as 0, nothing is dropped
HandleTradeDefaultZero(trade, clock) ==
  [dropped |-> FALSE,
   side    |-> IF StartsWithB(trade.side) THEN "B" ELSE "S",
   px      |-> IF trade.px.num THEN trade.px.val ELSE 0,
   sz      |-> IF trade.sz.num THEN trade.sz.val ELSE 0,
   time    |-> IF trade.time > 0 THEN trade.time ELSE clock,
   tid     |-> IF trade.tid # NoTid THEN trade.tid ELSE trade.hash]

\* handleTrade of subscribeToTrades: the parsed trade, or dropped |-> TRUE
HandleTrade(trade, clock) ==
  [dropped |-> ~trade.px.num \/ ~trade.sz.num,
   side    |-> IF StartsWithB(trade.side) THEN "B" ELSE "S",
   px      |-> trade.px.val,
   sz      |-> trade.sz.val,
   time    |-> IF trade.time > 0 THEN trade.time ELSE clock,
   tid     |-> IF trade.tid # NoTid THEN trade.tid ELSE trade.hash]

\* faulty variant: the recent-id test is skipped
SeenBeforeNever(seen, id) == FALSE

\* lastSeenIdsRef.current.has(idStr)
SeenBefore(seen, id) == \E i \in 1 .. Len(seen) : seen[i] = id

\* faulty variant: above maxSeenIds the first keepSeenIds entries are kept
RememberIdKeepOldest(seen, id) ==
  LET a == Append(seen, id)
  IN  IF Len(a) > maxSeenIds THEN SubSeq(a, 1, keepSeenIds) ELSE a

\* add(idStr); above maxSeenIds the set is rebuilt from its last keepSeenIds
RememberId(seen, id) ==
  LET a == Append(seen, id)
  IN  IF Len(a) > maxSeenIds THEN LastN(a, keepSeenIds) ELSE a

\* the callback useHyperliquidStream passes to subscribeToTrades
HookTrade(c, parsed, dur, clock, cutoff) ==
  LET id    == IF parsed.tid # NoTid THEN parsed.tid ELSE GenBase + c.obs.drawn
      o0    == [c.obs EXCEPT !.drawn = IF parsed.tid # NoTid THEN @ ELSE @ + 1,
                             !.delivered =
                                IF parsed.tid \in TradeIds
                                THEN [@ EXCEPT ![parsed.tid] = @ + 1] ELSE @]
      side  == IF StartsWithB(parsed.side) THEN "buy" ELSE "sell"
      order == [id |-> id, side |-> side,
                volume |-> Max(0, parsed.sz * parsed.px),
                timestamp |-> parsed.time]
      o1    == [o0 EXCEPT !.ingested =
                             IF parsed.tid \in TradeIds
                             THEN [@ EXCEPT ![parsed.tid] = @ + 1] ELSE @]
  IN  IF SeenBefore(c.lastSeenIds, id)
      THEN [c EXCEPT !.obs = o0]
      ELSE OnOrderReceived(
             [c EXCEPT !.lastSeenIds = RememberId(c.lastSeenIds, id), !.obs = o1],
             order, dur, clock, cutoff)

\* one entry of an incoming trades frame
HandleOne(c, trade, dur, clock, cutoff) ==
  LET parsed == HandleTrade(trade, clock)
  IN  IF parsed.dropped
      THEN [c EXCEPT !.obs.malformed = @ + 1]
      ELSE HookTrade(c, parsed, dur, clock, cutoff)

RECURSIVE HandleTrades(_, _, _, _, _)
\* payload.forEach(handleTrade) of one incoming trades frame, in array order
\* (by halves, the first half reduced to a value before the second starts, so
\* that long arrays do not nest deeply)
HandleTrades(c, batch, dur, clock, cutoff) ==
  IF batch = <<>> THEN c
  ELSE IF Len(batch) = 1 THEN HandleOne(c, batch[1], dur, clock, cutoff)
  ELSE LET h   == Len(batch) \div 2
           mid == HandleTrades(c, SubSeq(batch, 1, h), dur, clock, cutoff)
       IN  IF mid = mid
           THEN HandleTrades(mid, SubSeq(batch, h + 1, Len(batch)), dur, clock, cutoff)
           ELSE mid

\* ------------------------------------------------------------------ actions
Install(c) ==
  /\ queue' = c.queue
  /\ totals' = c.totals
  /\ counts' = c.counts
  /\ stats' = c.stats
  /\ particles' = c.particles
  /\ lastSeenIds' = c.lastSeenIds
  /\ obs' = c.obs

Cutoff == now - windowMs

\* time passes between two callbacks
Tick(d) ==
  /\ obs.steps < obs.limit
  /\ now' = now + d
  /\ obs' = [obs EXCEPT !.lastOp = "tick", !.steps = @ + 1,
                        !.justSpawned = FALSE, !.frameLen = 0, !.frameBad = 0, !.frameFirst = NoFirst]
  /\ UNCHANGED <<windowMs, queue, totals, counts, stats, particles,
                 lastSeenIds, streamMode, client, net, src>>

\* the synthetic stream's timer fires: generateOrder(), onOrderReceived(order)
SyntheticOrder(sd, vol, dur) ==
  /\ streamMode = "synthetic"
  /\ obs.steps < obs.limit
  /\ LET order == [id |-> GenBase + obs.drawn, side |-> sd, volume |-> vol,
                   timestamp |-> now]
         c0 == [Component EXCEPT !.obs.steps = @ + 1, !.obs.drawn = @ + 1,
                                 !.obs.lastOp = "synthetic",
                                 !.obs.frameLen = 0, !.obs.frameBad = 0,
                                 !.obs.frameFirst = NoFirst]
     IN  Install(OnOrderReceived(c0, order, dur, now, Cutoff))
  /\ UNCHANGED <<now, windowMs, streamMode, client, net, src>>

\* a "trades" frame arrives on the socket and is routed to the hook
LiveMessage(batch, dur) ==
  /\ streamMode = "live"
  /\ obs.steps < obs.limit
  /\ LET c0 == [Component EXCEPT !.obs.steps = @ + 1, !.obs.lastOp = "live",
                                 !.obs.justSpawned = FALSE,
                                 !.obs.frameLen = Len(batch),
                                 !.obs.frameBad =
                                    Cardinality({i \in 1 .. Len(batch) :
                                       ~batch[i].px.num \/ ~batch[i].sz.num}),
                                 !.obs.frameFirst = FirstOf(batch)]
     IN  Install(HandleTrades(c0, batch, dur, now, Cutoff))
  /\ UNCHANGED <<now, windowMs, streamMode, client, net, src>>

\* the animation loop: updateStats(); drawFrame()
Frame ==
  /\ obs.steps < obs.limit
  /\ LET u  == UpdateStats(queue, totals, stats, Cutoff, FALSE)
         ps == AdvanceParticles(particles, now - StartClock)
         lost == {x \in Range(particles) : x \notin Range(ps)}
         o  == [obs EXCEPT !.lastOp = "frame", !.steps = @ + 1,
                           !.justSpawned = FALSE, !.frameLen = 0, !.frameBad = 0, !.frameFirst = NoFirst,
                           !.expired = @ + Cardinality(lost),
                           !.droppedAlive =
                              @ \/ \E x \in lost : Alive(x, now - StartClock)]
     IN  /\ queue' = u.queue
         /\ totals' = u.totals
         /\ stats' = u.stats
         /\ particles' = ps
         /\ obs' = NoteShare(
                     NotePrune(o, queue, u.queue, now, obs.prunedAt = now), u)
  /\ UNCHANGED <<now, windowMs, counts, lastSeenIds, streamMode, client, net, src>>

\* the windowSeconds prop changes: the effect sets windowMs, recomputeTotals(),
\* updateStats(true)
SetWindowSeconds(w) ==
  /\ w * 1000 # windowMs
  /\ obs.steps < obs.limit
  /\ windowMs' = w * 1000
  /\ LET cut == now - w * 1000
         t1  == RecomputeTotals(queue, totals, cut)
         u   == UpdateStats(queue, t1, stats, cut, TRUE)
         o   == [obs EXCEPT !.lastOp = "window", !.windowChanged = TRUE, !.steps = @ + 1,
                            !.justSpawned = FALSE, !.frameLen = 0, !.frameBad = 0, !.frameFirst = NoFirst,
                            !.recomputed = t1]
     IN  /\ queue' = u.queue
         /\ totals' = u.totals
         /\ stats' = u.stats
         /\ obs' = NoteShare(NotePrune(o, queue, u.queue, now, FALSE), u)
  /\ UNCHANGED <<now, counts, particles, lastSeenIds, streamMode, client, net, src>>

\* faulty variant: the switch empties the window
SetStreamModeFlushes(m) ==
  /\ m # streamMode
  /\ obs.steps < obs.limit
  /\ streamMode' = m
  /\ queue' = <<>>
  /\ totals' = [buy |-> 0, sell |-> 0]
  /\ obs' = [obs EXCEPT !.lastOp = "mode", !.steps = @ + 1,
                        !.justSpawned = FALSE, !.frameLen = 0, !.frameBad = 0, !.frameFirst = NoFirst]
  /\ UNCHANGED <<now, windowMs, counts, stats, particles,
                 lastSeenIds, client, net, src>>

\* the source mode is switched; the window is not flushed
SetStreamMode(m) ==
  /\ m # streamMode
  /\ obs.steps < obs.limit
  /\ streamMode' = m
  /\ obs' = [obs EXCEPT !.lastOp = "mode", !.steps = @ + 1,
                        !.justSpawned = FALSE, !.frameLen = 0, !.frameBad = 0, !.frameFirst = NoFirst]
  /\ UNCHANGED <<now, windowMs, queue, totals, counts, stats, particles,
                 lastSeenIds, client, net, src>>

\* ------------------------------------------- HyperliquidWebSocket (client)
\* The client and its environment as one record, so that handlers compose.
\* A socket is numbered by its position in net.sockets; 0 stands for null.
\* The promise created by the connect() call that made socket i is socket
\* i's field `promise`; the closure variables `resolved` and `timeout` of that
\* call are fields of the socket too.
Live == [client |-> client, net |-> net]

NoSends == [k \in Keys \cup RouteKeys |-> 0]

NewSocket ==
  [readyState |-> "connecting", resolved |-> FALSE, timeout |-> TRUE,
   promise |-> "pending", sent |-> NoSends, unsent |-> NoSends]

\* this.ws && this.ws.readyState === WebSocket.OPEN
WsOpen(s) ==
  s.client.ws # 0 /\ s.net.sockets[s.client.ws].readyState = "open"

\* notifyStatus(status): the status the listeners were last told
NotifyStatus(s, st) == [s EXCEPT !.client.status = st]

\* faulty variant: the interval handle is dropped without clearInterval
StopHeartbeatHandleOnly(s) == [s EXCEPT !.client.heartbeatInterval = 0]

\* stopHeartbeat(): clears the interval whose handle the client holds
StopHeartbeat(s) ==
  IF s.client.heartbeatInterval # 0
  THEN [s EXCEPT !.net.beats = @ \ {s.client.heartbeatInterval},
                 !.client.heartbeatInterval = 0]
  ELSE s

\* startHeartbeat(): a new interval; the handle held before is overwritten
StartHeartbeat(s) ==
  [s EXCEPT !.net.beatsMade = @ + 1,
            !.net.beats = @ \cup {s.net.beatsMade + 1},
            !.client.heartbeatInterval = s.net.beatsMade + 1]

\* faulty variant: nothing is sent again after an open
ResubscribeNone(s) == s

\* faulty variant: every payload ever sent on the socket is sent again
ResubscribeAllSent(s) ==
  IF ~WsOpen(s) THEN s
  ELSE [s EXCEPT !.net.sockets[s.client.ws].sent =
          [k \in DOMAIN @ |-> IF k \in s.client.subscriptions
                                  \/ \E i \in 1 .. Len(s.net.sockets) :
                                        s.net.sockets[i].sent[k] > 0
                              THEN @[k] + 1 ELSE @[k]]]

\* resubscribeAll(): every payload of the registry is sent on this.ws
ResubscribeAll(s) ==
  IF ~WsOpen(s) THEN s
  ELSE [s EXCEPT !.net.sockets[s.client.ws].sent =
          [k \in DOMAIN @ |-> IF k \in s.client.subscriptions THEN @[k] + 1 ELSE @[k]]]

\* faulty variant: the delay does not grow with the attempts
ReconnectDelayFlat(attempts) == reconnectDelay

\* delay = min(reconnectDelay * 2^(attempt - 1), maxReconnectDelay)
ReconnectDelay(attempts) ==
  Min(reconnectDelay * 2 ^ (Max(1, attempts) - 1), maxReconnectDelay)

\* handleReconnect(): setTimeout(() => this.connect(), delay); never cancelled
HandleReconnect(s) ==
  LET delay == ReconnectDelay(s.client.reconnectAttempts)
  IN  [s EXCEPT !.net.timers = Append(@, delay), !.net.scheduled = delay]

\* connect(): resolved promise when open, the pending promise when there is
\* one, otherwise a new socket with a new promise and a 15 s timeout
Connect(s) ==
  IF WsOpen(s) THEN [s EXCEPT !.net.returned = [kind |-> "resolved", id |-> 0]]
  ELSE IF s.client.connectPromise # 0
  THEN [s EXCEPT !.net.returned = [kind |-> "promise", id |-> s.client.connectPromise]]
  ELSE LET i  == Len(s.net.sockets) + 1
           s1 == NotifyStatus(s, "connecting")
       IN  [s1 EXCEPT !.net.sockets = Append(@, NewSocket),
                      !.client.ws = i,
                      !.client.connectPromise = i,
                      !.net.returned = [kind |-> "promise", id |-> i]]

\* the timeout callback of the connect() call that made socket i
OnTimeout(s, i) ==
  LET s0 == [s EXCEPT !.net.sockets[i].timeout = FALSE]
  IN  IF s.net.sockets[i].resolved THEN s0
      ELSE [s0 EXCEPT !.net.sockets[i].resolved = TRUE,
                      !.net.sockets[i].promise = "rejected"]

\* ws.onopen of socket i
OnOpen(s, i) ==
  IF s.net.sockets[i].resolved THEN s
  ELSE LET s1 == [s EXCEPT !.net.sockets[i].resolved = TRUE,
                           !.net.sockets[i].timeout = FALSE,
                           !.client.isConnected = TRUE,
                           !.client.reconnectAttempts = 0]
           s2 == ResubscribeAll(StartHeartbeat(NotifyStatus(s1, "connected")))
       IN  [s2 EXCEPT !.client.connectPromise = 0,
                      !.net.sockets[i].promise = "resolved"]

\* ws.onerror of socket i
OnError(s, i) ==
  IF s.net.sockets[i].resolved THEN s
  ELSE LET s1 == [s EXCEPT !.net.sockets[i].resolved = TRUE,
                           !.net.sockets[i].timeout = FALSE,
                           !.client.isConnected = FALSE]
           s2 == NotifyStatus(s1, "degraded")
       IN  [s2 EXCEPT !.client.connectPromise = 0,
                      !.net.sockets[i].promise = "rejected"]

\* ws.onclose of socket i
OnClose(s, i) ==
  LET wasManual == s.client.manualDisconnect
      s1 == StopHeartbeat([s EXCEPT !.client.isConnected = FALSE])
      s2 == NotifyStatus(s1, IF wasManual THEN "offline" ELSE "degraded")
      s3 == [s2 EXCEPT !.client.reconnectAttempts =
                          IF wasManual THEN @ ELSE @ + 1,
                       !.client.manualDisconnect = FALSE,
                       !.client.connectPromise = 0]
  IN  IF ~s.net.sockets[i].resolved
      THEN [s3 EXCEPT !.net.sockets[i].resolved = TRUE,
                      !.net.sockets[i].timeout = FALSE,
                      !.net.sockets[i].promise = "rejected"]
      ELSE IF ~wasManual THEN HandleReconnect(s3) ELSE s3

\* disconnect()
Disconnect(s) ==
  LET s1 == StopHeartbeat(s)
      s2 == NotifyStatus([s1 EXCEPT !.client.manualDisconnect = TRUE,
                                    !.client.subscriptions = {},
                                    !.client.connectPromise = 0], "offline")
      s3 == IF WsOpen(s2)
            THEN [s2 EXCEPT !.net.sockets[s2.client.ws].readyState = "closing"]
            ELSE s2
  IN  [s3 EXCEPT !.client.ws = 0, !.client.isConnected = FALSE]

\* addSubscription(key, payload, callback)
AddSubscription(s, k) ==
  LET s1 == [s EXCEPT !.client.subscriptions = @ \cup {k}]
  IN  IF WsOpen(s1)
      THEN [s1 EXCEPT !.net.sockets[s1.client.ws].sent[k] = @ + 1]
      ELSE s1

\* unsubscribe(subscriptionKey)
Unsubscribe(s, k) ==
  LET s1 == IF k \in s.client.subscriptions /\ WsOpen(s)
            THEN [s EXCEPT !.net.sockets[s.client.ws].unsent[k] = @ + 1]
            ELSE s
  IN  [s1 EXCEPT !.client.subscriptions = @ \ {k}]

\* ---------------------------------------------------------- message routing
\* The subscription payload that the subscribeTo...() method of key k registers.
Payload(k) ==
  CASE k = "trades:BTC"    -> [type |-> "trades", user |-> None, coin |-> "BTC", interval |-> None]
    [] k = "l2Book:BTC"    -> [type |-> "l2Book", user |-> None, coin |-> "BTC", interval |-> None]
    [] k = "allMids"       -> [type |-> "allMids", user |-> None, coin |-> None, interval |-> None]
    [] k = "candle:BTC:1m" -> [type |-> "candle", user |-> None, coin |-> "BTC", interval |-> "1m"]
    [] k = "userFills:u1"  -> [type |-> "userFills", user |-> "u1", coin |-> None, interval |-> None]

\* value.replace(/_/g, "").toLowerCase() on the type strings of the frames
Compact(value) ==
  CASE value \in {"trades", "Trades", "TRADES"}   -> "trades"
    [] value \in {"allMids", "all_mids"}         -> "allmids"
    [] value \in {"l2Book", "l2_book"}           -> "l2book"
    [] value = "userFills"                       -> "userfills"
    [] OTHER                                     -> value

\* mapType(value)
MapType(value) ==
  LET compact == Compact(value)
  IN  IF compact = "mids" THEN "allmids" ELSE compact

\* normCoin(value) / normalize(value): upper case, "-PERP" and "-SPOT" cut off
NormCoin(value) ==
  CASE value \in {"BTC", "btc", "BTC-PERP"} -> "BTC"
    [] value \in {"ETH", "eth"}             -> "ETH"
    [] OTHER                                -> value

\* A JSON object is [coin, interval, kind, kids]: kind "leaf" has no data
\* property, kind "object" has the object kids[1] as data, kind "array" has
\* the array kids as data.  A frame has type, channel and user besides.
\* rawType: data.type ?? data.channel ?? (nested type; the modelled frames
\* declare none)
RawType(data) ==
  IF data.type # None THEN data.type ELSE data.channel

RECURSIVE ExtractSymbol(_)
\* extractSymbol(node): an array taken for node has neither coin nor data
ExtractSymbol(node) ==
  IF node.coin # None THEN NormCoin(node.coin)
  ELSE IF node.kind = "object" THEN ExtractSymbol(node.kids[1])
  ELSE None

RECURSIVE ExtractInterval(_)
\* extractInterval(node)
ExtractInterval(node) ==
  IF node.interval # None THEN node.interval
  ELSE IF node.kind = "object" THEN ExtractInterval(node.kids[1])
  ELSE None

RECURSIVE Visit(_, _, _)
\* visit(value) inside matchesSubscription
Visit(value, targetCoin, targetInterval) ==
  LET coinCandidate == NormCoin(value.coin)
      intervalCandidate == value.interval
  IN  IF coinCandidate # None /\ targetCoin # None /\ coinCandidate # targetCoin
        THEN FALSE
      ELSE IF intervalCandidate # None /\ targetInterval # None
              /\ intervalCandidate # targetInterval
        THEN FALSE
      ELSE IF value.kind = "leaf"
        THEN /\ (targetCoin = None \/ coinCandidate = targetCoin)
             /\ (targetInterval = None \/ intervalCandidate = targetInterval)
      ELSE IF value.kind = "object"
        THEN Visit(value.kids[1], targetCoin, targetInterval)
      ELSE \E n \in 1 .. Len(value.kids) :
              Visit(value.kids[n], targetCoin, targetInterval)

\* matchesSubscription(node, expectedCoin, expectedInterval)
MatchesSubscription(node, expectedCoin, expectedInterval) ==
  LET targetCoin == NormCoin(expectedCoin)
  IN  IF targetCoin = None /\ expectedInterval = None THEN TRUE
      ELSE Visit(node, targetCoin, expectedInterval)

\* the tests of the subscription loop that come before matchesSubscription
PassesFilters(data, sub) ==
  /\ MapType(sub.type) = MapType(RawType(data))
  /\ ~(sub.user # None /\ data.user # None /\ sub.user # data.user)
  /\ sub.coin # None =>
        LET messageCoin == ExtractSymbol(data)
        IN  messageCoin # None => NormCoin(messageCoin) = NormCoin(sub.coin)
  /\ sub.interval # None =>
        LET messageInterval == ExtractInterval(data)
        IN  messageInterval # None => messageInterval = sub.interval

\* faulty variant: every frame of the subscription's type is delivered
DeliversByTypeOnly(data, k) ==
  MapType(Payload(k).type) = MapType(RawType(data))

\* one turn of the subscription loop ends in subscription.callback(data)
Delivers(data, k) ==
  /\ PassesFilters(data, Payload(k))
  /\ MatchesSubscription(data, Payload(k).coin, Payload(k).interval)

\* handleMessage(data): the callbacks invoked, the drop notices counted
HandleMessage(s, data) ==
  IF RawType(data) = None THEN s
  ELSE LET subs == s.client.subscriptions
           dropped == {k \in subs : /\ PassesFilters(data, Payload(k))
                                    /\ ~MatchesSubscription(data, Payload(k).coin,
                                                            Payload(k).interval)}
       IN  [s EXCEPT !.net.invoked = {k \in subs : Delivers(data, k)},
                     !.net.dropNoticeCount =
                         Min(MAX_DROP_LOGS, @ + Cardinality(dropped))]

\* ---------------------------------------------------------- client actions
NoReturn == [kind |-> "none", id |-> 0]

Leaf(c, v) == [coin |-> c, interval |-> v, kind |-> "leaf", kids |-> <<>>]

Node(c, v, kind, kids) == [coin |-> c, interval |-> v, kind |-> kind, kids |-> kids]

\* what JSON.parse(event.data) gives: type or channel, user, and a payload
WsFrame(type, channel, user, body) ==
  [type |-> type, channel |-> channel, user |-> user, coin |-> body.coin,
   interval |-> body.interval, kind |-> body.kind, kids |-> body.kids]

NoFrame == WsFrame(None, None, None, Leaf(None, None))

\* the start of a call or callback named op that concerns socket i (0: none)
Begin(op, i) ==
  [Live EXCEPT !.net.steps = @ + 1, !.net.lastOp = op, !.net.sock = i,
               !.net.scheduled = 0, !.net.returned = NoReturn,
               !.net.frame = NoFrame, !.net.invoked = {}]

InstallLive(s) ==
  /\ client' = s.client
  /\ net' = s.net
  /\ UNCHANGED canvasVars
  /\ UNCHANGED src

ClientOpen == net.steps < net.limit

SocketIds == 1 .. Len(net.sockets)

\* the caller calls connect()
CallConnect ==
  /\ ClientOpen
  /\ InstallLive(Connect([Begin("connect", 0) EXCEPT !.net.idle = FALSE]))

\* the caller calls disconnect()
CallDisconnect ==
  /\ ClientOpen
  /\ InstallLive([Disconnect(Begin("disconnect", 0))
                    EXCEPT !.net.everDisconnected = TRUE, !.net.idle = TRUE])

\* the caller calls one of the subscribeTo...() methods
CallSubscribe(k) ==
  /\ ClientOpen
  /\ InstallLive(AddSubscription(Begin("subscribe", 0), k))

\* the caller calls unsubscribe(key)
CallUnsubscribe(k) ==
  /\ ClientOpen
  /\ InstallLive(Unsubscribe(Begin("unsubscribe", 0), k))

\* the opening handshake of socket i completes: readyState OPEN, onopen
SocketOpens(i) ==
  /\ ClientOpen
  /\ net.sockets[i].readyState = "connecting"
  /\ InstallLive(OnOpen([Begin("open", i)
                           EXCEPT !.net.sockets[i].readyState = "open"], i))

\* the opening handshake of socket i fails: readyState CLOSED, then the error
\* event and the close event are fired one after the other
SocketFails(i) ==
  /\ ClientOpen
  /\ net.sockets[i].readyState = "connecting"
  /\ InstallLive(OnClose(OnError([Begin("fail", i)
                           EXCEPT !.net.sockets[i].readyState = "closed"], i), i))

\* the open socket i is closed by the server or the network: onclose
SocketDrops(i) ==
  /\ ClientOpen
  /\ net.sockets[i].readyState = "open"
  /\ InstallLive(OnClose([Begin("drop", i)
                            EXCEPT !.net.sockets[i].readyState = "closed"], i))

\* the close that disconnect() asked for on socket i completes: onclose
SocketClosed(i) ==
  /\ ClientOpen
  /\ net.sockets[i].readyState = "closing"
  /\ InstallLive(OnClose([Begin("closed", i)
                            EXCEPT !.net.sockets[i].readyState = "closed"], i))

\* 15 s after the connect() call that made socket i, its timeout fires
ConnectTimeout(i) ==
  /\ ClientOpen
  /\ net.sockets[i].timeout
  /\ InstallLive(OnTimeout(Begin("timeout", i), i))

\* the j-th pending reconnect timer fires: this.connect()
ReconnectFires(j) ==
  /\ ClientOpen
  /\ LET s0 == Begin("reconnect", 0)
         rest == [n \in 1 .. Len(net.timers) - 1 |->
                    IF n < j THEN net.timers[n] ELSE net.timers[n + 1]]
     IN  InstallLive(Connect([s0 EXCEPT !.net.timers = rest]))

\* a message event on the open socket i: onmessage, handleMessage(data)
SocketMessage(i, data) ==
  /\ ClientOpen
  /\ net.sockets[i].readyState = "open"
  /\ InstallLive(HandleMessage([Begin("message", i) EXCEPT !.net.frame = data], data))

\* ------------------------------------------------------------- the sources
\* useOrderStream: streamControl is a BehaviorSubject, the effect subscribes to
\* streamControl.pipe(startWith, switchMap(...)); a pending timer is
\* [due, delay].  useHyperliquidStream: subKeyRef ("" for null), the enabled
\* prop, and the subscribe() calls that wait for connect() (the socket whose
\* promise each one awaits).  animation: the loop is registered with
\* requestAnimationFrame.  paused, called, armed and remainder (the time the
\* pending timer had left at the last pause) are observations.
Timer(clock, d) == [due |-> clock + d, delay |-> d]

RemoveAt(seq, j) ==
  [n \in 1 .. Len(seq) - 1 |-> IF n < j THEN seq[n] ELSE seq[n + 1]]

\* faulty variant: the earlier inner timer is not unsubscribed (mergeMap)
SwitchMapKeepInner(sy, streaming, clock, d) ==
  IF ~sy.subscribed THEN sy
  ELSE IF ~streaming THEN sy
  ELSE [sy EXCEPT !.timers = Append(@, Timer(clock, d)), !.armed = 1]

\* switchMap on a value of streamControl: the inner timer is unsubscribed;
\* EMPTY when not streaming, scheduleNext() with a new delay otherwise
SwitchMap(sy, streaming, clock, d) ==
  IF ~sy.subscribed THEN sy
  ELSE IF ~streaming THEN [sy EXCEPT !.timers = <<>>]
  ELSE [sy EXCEPT !.timers = <<Timer(clock, d)>>, !.armed = 1]

\* streamControl.current.next(value)
StreamControlNext(sy, value, clock, d) ==
  SwitchMap([sy EXCEPT !.streaming = value], value, clock, d)

\* bookkeeping of a step of a source that leaves the canvas alone
Note(op) ==
  [obs EXCEPT !.lastOp = op, !.steps = @ + 1, !.justSpawned = FALSE,
              !.frameLen = 0, !.frameBad = 0, !.frameFirst = NoFirst]

Quiet(sy) == [sy EXCEPT !.called = "none", !.armed = 0]

\* pauseStream() of useOrderStream
PauseSynthetic ==
  /\ obs.steps < obs.limit
  /\ src' = [StreamControlNext(Quiet(src), FALSE, now, 0)
               EXCEPT !.paused.synthetic = TRUE,
                      !.remainder = IF src.timers = <<>> THEN 0
                                    ELSE src.timers[1].due - now]
  /\ obs' = Note("pause")
  /\ UNCHANGED <<now, windowMs, queue, totals, counts, stats, particles,
                 lastSeenIds, streamMode, client, net>>

\* resumeStream() of useOrderStream; d is the delay drawn by scheduleNext()
ResumeSynthetic(d) ==
  /\ obs.steps < obs.limit
  /\ src' = [StreamControlNext(Quiet(src), TRUE, now, d)
               EXCEPT !.paused.synthetic = FALSE]
  /\ obs' = Note("resume")
  /\ UNCHANGED <<now, windowMs, queue, totals, counts, stats, particles,
                 lastSeenIds, streamMode, client, net>>

\* the pending timer j fires: tap (generateOrder, onOrderReceivedRef.current),
\* then mergeMap(scheduleNext) arms the successor with the delay d
SyntheticEmits(j, sd, vol, dur, d) ==
  /\ obs.steps < obs.limit
  /\ src.timers[j].due <= now
  /\ LET order == [id |-> GenBase + obs.drawn, side |-> sd, volume |-> vol,
                   timestamp |-> now]
         c0 == [Component EXCEPT !.obs.steps = @ + 1, !.obs.drawn = @ + 1,
                                 !.obs.lastOp = "synthetic",
                                 !.obs.justSpawned = FALSE,
                                 !.obs.frameLen = 0, !.obs.frameBad = 0,
                                 !.obs.frameFirst = NoFirst]
     IN  IF streamMode = "synthetic"
         THEN Install(OnOrderReceived(c0, order, dur, now, Cutoff))
         ELSE Install(c0)
  /\ src' = [Quiet(src) EXCEPT !.timers = Append(RemoveAt(src.timers, j), Timer(now, d)),
                               !.called = "synthetic", !.armed = 1]
  /\ UNCHANGED <<now, windowMs, streamMode, client, net>>

\* subscribe() of useHyperliquidStream up to its await: ws.connect(); an open
\* socket lets it go on to subscribeToTrades at once
HookSubscribe(s, sy) ==
  LET s1 == Connect(s)
  IN  IF s1.net.returned.kind = "resolved"
      THEN [live |-> AddSubscription(s1, "trades:BTC"),
            sy   |-> [sy EXCEPT !.subKey = "trades:BTC"]]
      ELSE [live |-> s1,
            sy   |-> [sy EXCEPT !.waiting = Append(@, s1.net.returned.id)]]

\* pauseStream() / effect cleanup of useHyperliquidStream
HookUnsubscribe(s, sy) ==
  IF sy.subKey # ""
  THEN [live |-> Unsubscribe(s, sy.subKey), sy |-> [sy EXCEPT !.subKey = ""]]
  ELSE [live |-> s, sy |-> sy]

InstallHook(h) ==
  /\ client' = h.live.client
  /\ net' = h.live.net
  /\ src' = h.sy
  /\ UNCHANGED canvasVars

\* the enabled prop becomes true: the effect calls subscribe()
LiveEnable ==
  /\ ClientOpen
  /\ src.mounted /\ ~src.enabled
  /\ InstallHook(HookSubscribe(Begin("enable", 0),
                    [Quiet(src) EXCEPT !.enabled = TRUE, !.paused.live = FALSE]))

\* pauseStream() of useHyperliquidStream
LivePause ==
  /\ ClientOpen
  /\ InstallHook(HookUnsubscribe(Begin("pause", 0),
                    [Quiet(src) EXCEPT !.paused.live = TRUE]))

\* resumeStream() of useHyperliquidStream
LiveResume ==
  /\ ClientOpen
  /\ LET sy == [Quiet(src) EXCEPT !.paused.live = FALSE]
         s  == Begin("resume", 0)
     IN  IF src.enabled /\ src.subKey = ""
         THEN InstallHook(HookSubscribe(s, sy))
         ELSE InstallHook([live |-> s, sy |-> sy])

\* the connect() promise that the j-th waiting subscribe() awaits is settled:
\* subscribeToTrades(symbol, ...) and subKeyRef.current = key, or the catch
HookContinues(j) ==
  /\ ClientOpen
  /\ net.sockets[src.waiting[j]].promise # "pending"
  /\ LET s  == Begin("continue", src.waiting[j])
         sy == [Quiet(src) EXCEPT !.waiting = RemoveAt(@, j)]
     IN  IF net.sockets[src.waiting[j]].promise = "resolved"
         THEN InstallHook([live |-> AddSubscription(s, "trades:BTC"),
                           sy   |-> [sy EXCEPT !.subKey = "trades:BTC"]])
         ELSE InstallHook([live |-> s, sy |-> sy])

\* a trades frame of the exchange for BTC, as handleMessage sees it
TradesFrame ==
  WsFrame(None, "trades", None, Node(None, None, "array", <<Leaf("BTC", None)>>))

\* the open socket i delivers a trades frame: handleMessage, the callback of
\* subscribeToTrades, handleTrade, the hook's callback, onOrderReceivedRef
SocketTrades(i, batch, dur) ==
  /\ obs.steps < obs.limit
  /\ net.sockets[i].readyState = "open"
  /\ LET routed == /\ "trades:BTC" \in client.subscriptions
                   /\ Delivers(TradesFrame, "trades:BTC")
         c0 == [Component EXCEPT !.obs.steps = @ + 1,
                                 !.obs.lastOp = IF routed THEN "live" ELSE "unrouted",
                                 !.obs.justSpawned = FALSE,
                                 !.obs.frameLen = Len(batch),
                                 !.obs.frameBad =
                                    Cardinality({n \in 1 .. Len(batch) :
                                       ~batch[n].px.num \/ ~batch[n].sz.num}),
                                 !.obs.frameFirst = FirstOf(batch)]
     IN  /\ IF routed /\ streamMode = "live"
            THEN Install(HandleTrades(c0, batch, dur, now, Cutoff))
            ELSE Install(c0)
         /\ src' = [Quiet(src) EXCEPT !.called = IF routed THEN "live" ELSE "none"]
  /\ UNCHANGED <<now, windowMs, streamMode, client, net>>

\* the component unmounts: the cleanups of the render-loop effect
\* (cancelAnimationFrame), of useOrderStream (subscription.unsubscribe()) and
\* of useHyperliquidStream (unsubscribe(subKeyRef.current))
Unmount ==
  /\ ClientOpen
  /\ src.mounted
  /\ InstallHook(HookUnsubscribe(Begin("unmount", 0),
                    [Quiet(src) EXCEPT !.mounted = FALSE, !.animation = FALSE,
                                       !.subscribed = FALSE, !.timers = <<>>]))

\* requestAnimationFrame calls loop while it is registered
AnimationFrame == src.animation /\ Frame

InitSrc ==
  [mounted |-> TRUE, animation |-> TRUE,
   streaming |-> TRUE, subscribed |-> TRUE,
   timers |-> <<Timer(StartClock, 2050)>>,
   enabled |-> FALSE, subKey |-> "", waiting |-> <<>>,
   paused |-> [synthetic |-> FALSE, live |-> FALSE],
   called |-> "none", armed |-> 0, remainder |-> 0]

InitClient ==
  [ws |-> 0, reconnectAttempts |-> 0, subscriptions |-> {}, isConnected |-> FALSE,
   connectPromise |-> 0, heartbeatInterval |-> 0, manualDisconnect |-> FALSE,
   status |-> "offline"]

InitNet ==
  [sockets |-> <<>>, timers |-> <<>>, beats |-> {}, beatsMade |-> 0,
   steps |-> 0, lastOp |-> "init", sock |-> 0, scheduled |-> 0,
   returned |-> NoReturn, everDisconnected |-> FALSE, idle |-> FALSE,
   limit |-> MaxClientSteps, frame |-> NoFrame, invoked |-> {}, dropNoticeCount |-> 0]

\* ------------------------------------------------------------ FlowGeometry
\* Lengths are in 1/ShareScale px, t and localT in hundredths, the separation
\* scale in tenths.  The y coordinates of the result are doubled, so that the
\* halves of calcEdgesAt stay whole numbers.
totalFlowHeight == 80   \* OrderFlowCanvas.tsx:29
minBandHeight   == 6    \* OrderFlowCanvas.tsx:30
CanvasWidth     == 1000 \* rect.width of the canvas, px
CanvasHeight    == 420  \* rect.height of the canvas, px

\* sigmoidNormalized(localT) in 1/ShareScale, at the quarters of the middle
\* span: (sig(t) - sig(0)) / (sig(1) - sig(0)), sig(x) = 1 / (1 + e^(-10 (x - 0.5)))
SigmoidNormalized(localT) ==
  CASE localT = 0   -> 0
    [] localT = 25  -> 701
    [] localT = 50  -> Half
    [] localT = 75  -> ShareScale - 701
    [] localT = 100 -> ShareScale

\* resize(): the geometry of a desktop canvas for a separation scale
Geometry(scaleTenths) ==
  LET leftPad  == (CanvasWidth * 8) \div 100
      rightPad == (CanvasWidth * 32) \div 100
      originX  == leftPad
      endX     == Max(originX + 120, CanvasWidth - rightPad)
      baseSeparation == Max(8 * ShareScale, (totalFlowHeight * ShareScale * 14) \div 100)
  IN  [origin |-> [x |-> originX, y2 |-> CanvasHeight * ShareScale],
       endX |-> endX,
       separationMax |-> (baseSeparation * scaleTenths) \div 10]

\* faulty variant: the upper edge of the sell band does not follow the gap
CalcEdgesAtGlued(t, buyShare, geom) ==
  LET sep   == IF t >= 25 /\ t <= 75
               THEN (SigmoidNormalized(2 * (t - 25)) * (geom.separationMax \div 100))
                       \div (ShareScale \div 100)
               ELSE IF t > 75 THEN geom.separationMax ELSE 0
      hBuy  == Max(minBandHeight * ShareScale, totalFlowHeight * buyShare)
      hSell == Max(minBandHeight * ShareScale, totalFlowHeight * ShareScale - hBuy)
      buyCenter  == geom.origin.y2 - hSell - sep
      sellCenter == geom.origin.y2 + hBuy
  IN  [x |-> geom.origin.x * 100 + (geom.endX - geom.origin.x) * t,
       buyTop |-> buyCenter - hBuy, buyBot |-> buyCenter + hBuy,
       sellTop |-> sellCenter - hSell, sellBot |-> sellCenter + hSell,
       buyCenter |-> buyCenter, sellCenter |-> sellCenter]

\* calcEdgesAt(t, buyShare) with geometryRef.current = geom; x in 1/100 px
CalcEdgesAt(t, buyShare, geom) ==
  LET sep   == IF t >= 25 /\ t <= 75
               THEN (SigmoidNormalized(2 * (t - 25)) * (geom.separationMax \div 100))
                       \div (ShareScale \div 100)
               ELSE IF t > 75 THEN geom.separationMax ELSE 0
      hBuy  == Max(minBandHeight * ShareScale, totalFlowHeight * buyShare)
      hSell == Max(minBandHeight * ShareScale, totalFlowHeight * ShareScale - hBuy)
      buyCenter  == geom.origin.y2 - hSell - sep
      sellCenter == geom.origin.y2 + hBuy + sep
  IN  [x |-> geom.origin.x * 100 + (geom.endX - geom.origin.x) * t,
       buyTop |-> buyCenter - hBuy, buyBot |-> buyCenter + hBuy,
       sellTop |-> sellCenter - hSell, sellBot |-> sellCenter + hSell,
       buyCenter |-> buyCenter, sellCenter |-> sellCenter]

NoEdges ==
  [x |-> 0, buyTop |-> 0, buyBot |-> 0, sellTop |-> 0, sellBot |-> 0,
   buyCenter |-> 0, sellCenter |-> 0]
NoSample == [t |-> 0, separationMax |-> 0, buyShare |-> Half]

\* drawRibbons / drawParticles ask for the edges at t with the stored share
SampleEdges(t, scaleTenths) ==
  /\ obs.steps < obs.limit
  /\ obs' = [obs EXCEPT !.lastOp = "edges", !.steps = @ + 1,
                        !.justSpawned = FALSE, !.frameLen = 0, !.frameBad = 0,
                        !.frameFirst = NoFirst,
                        !.edges = CalcEdgesAt(t, stats.buyShare, Geometry(scaleTenths)),
                        !.sample = [t |-> t,
                                    separationMax |-> Geometry(scaleTenths).separationMax,
                                    buyShare |-> stats.buyShare]]
  /\ UNCHANGED <<now, windowMs, queue, totals, counts, stats, particles,
                 lastSeenIds, streamMode, client, net, src>>

\* ------------------------------------------------------------ specification
InitObs ==
  [lastOp |-> "init", prunedAt |-> StartClock, evicted |-> 0, prevEvicted |-> 0,
   repeated |-> FALSE, windowChanged |-> FALSE,
   recomputed |-> [buy |-> 0, sell |-> 0],
   steps |-> 0, limit |-> MaxSteps, frameLen |-> 0, frameBad |-> 0, frameFirst |-> NoFirst, drawn |-> 0, spawned |-> 0, calls |-> 0, malformed |-> 0,
   maxEvictedSeq |-> 0, justSpawned |-> FALSE, lastGone |-> 0, expired |-> 0,
   droppedAlive |-> FALSE,
   delivered |-> [i \in TradeIds |-> 0], ingested |-> [i \in TradeIds |-> 0],
   raw |-> Half, prev |-> Half, next |-> Half, published |-> TRUE,
   edges |-> NoEdges, sample |-> NoSample]

\* the state once the component is mounted: empty window, neutral share
Mounted ==
  /\ now = StartClock
  /\ windowMs \in {w * 1000 : w \in WindowChoices}
  /\ queue = <<>>
  /\ totals = [buy |-> 0, sell |-> 0]
  /\ counts = [buy |-> 0, sell |-> 0]
  /\ stats = [buyShare |-> Half, sellShare |-> Half]
  /\ particles = <<>>
  /\ lastSeenIds = <<>>
  /\ streamMode = "synthetic"
  /\ client = InitClient
  /\ net = InitNet

Init == Mounted /\ obs = InitObs /\ src = InitSrc

\* the trades an incoming frame can carry at the current clock
Trade(tid, sideStr, px, sz, time) ==
  [tid |-> tid, hash |-> NoTid, side |-> sideStr, px |-> px, sz |-> sz,
   time |-> time]
GoodTrades ==
  {Trade(1, "B", Num(2), Num(25), now),
   Trade(1, "A", Num(2), Num(25), now - 4000),
   Trade(2, "B", Num(2), Num(25), now - 4000),
   Trade(NoTid, "A", Num(2), Num(25), 0)}
BadTrades ==
  {Trade(1, "B", NotNum, Num(25), now),
   Trade(2, "A", Num(2), NotNum, now)}
\* a frame carries one trade or an array of trades
Batches ==
  {<<t>> : t \in GoodTrades \cup BadTrades}
    \cup {<<Trade(1, "B", Num(2), Num(25), now), Trade(1, "B", Num(2), Num(25), now)>>,
          <<Trade(2, "B", Num(2), Num(25), now), Trade(1, "A", Num(2), Num(25), now - 4000)>>,
          <<Trade(2, "A", NotNum, Num(25), now), Trade(2, "B", Num(2), Num(25), now)>>}

Next ==
  \/ \E d \in TickSteps : Tick(d)
  \/ \E sd \in Sides, vol \in Volumes, dur \in Durations : SyntheticOrder(sd, vol, dur)
  \/ \E batch \in Batches, dur \in Durations : LiveMessage(batch, dur)
  \/ Frame
  \/ \E w \in WindowChoices : SetWindowSeconds(w)
  \/ \E m \in {"synthetic", "live"} : SetStreamMode(m)

Spec == Init /\ [][Next]_vars

\* Runs that fill the particle pool: trades frames that carry a large array
\* (the snapshot the exchange sends on subscribe), lifetimes from both ends of
\* the range, and clock steps short enough to outlive some particles only.
\* a long frame of short-lived particles, or a shorter one of long-lived ones
BurstShapes    == {<<201, 1400>>, <<200, 2199>>}
BurstTicks     == {2000}
\* frames keep arriving until the pool has overflowed
BurstCap       == maxParticles
Burst(n) ==
  [i \in 1 .. n |->
     Trade(1000 * (obs.steps + 1) + i, "B", Num(2), Num(25), now)]

BurstOpen == obs.steps < MaxBurstSteps

NextBurst ==
  \/ BurstOpen /\ \E d \in BurstTicks : Tick(d)
  \/ BurstOpen /\ obs.spawned <= BurstCap
       /\ \E sh \in BurstShapes : LiveMessage(Burst(sh[1]), sh[2])
  \/ BurstOpen /\ Frame
  \/ BurstOpen /\ SetStreamMode("live")

SpecBurst == Init /\ [][NextBurst]_vars

\* Runs in which a single trade is ingested and then ages out of the window
\* while frames keep recomputing the share.
NextDecay ==
  \/ \E d \in TickSteps : Tick(d)
  \/ obs.calls = 0 /\ \E sd \in Sides, vol \in Volumes, dur \in Durations :
                         SyntheticOrder(sd, vol, dur)
  \/ Frame

InitDecay == Mounted /\ obs = [InitObs EXCEPT !.limit = MaxDecaySteps] /\ src = InitSrc

SpecDecay == InitDecay /\ [][NextDecay]_vars

\* Runs of the live client alone: calls by the owner of the client and the
\* events of its sockets and timers, in any order.
NextClient ==
  \/ CallConnect
  \/ CallDisconnect
  \/ \E k \in Keys : CallSubscribe(k)
  \/ \E k \in Keys : CallUnsubscribe(k)
  \/ \E i \in SocketIds : SocketOpens(i)
  \/ \E i \in SocketIds : SocketFails(i)
  \/ \E i \in SocketIds : SocketDrops(i)
  \/ \E i \in SocketIds : SocketClosed(i)
  \/ \E i \in SocketIds : ConnectTimeout(i)
  \/ \E j \in 1 .. Len(net.timers) : ReconnectFires(j)

SpecClient == Init /\ [][NextClient]_vars

\* Runs that route frames: the client connects, its owner subscribes and
\* unsubscribes, and the open socket delivers frames.
CoinFields == {None, "BTC", "ETH", "BTC-PERP"}
IntervalFields == {None, "1m", "5m"}
Leaves == {Leaf(c, v) : c \in CoinFields, v \in IntervalFields}
PlainLeaves == {Leaf(c, None) : c \in {None, "BTC", "ETH"}}
Bodies ==
  Leaves
  \cup {Node(c, None, "object", <<l>>) : c \in {None, "BTC", "ETH"}, l \in Leaves}
  \cup {Node(c, None, "array", <<l1, l2>>) :
           c \in {None, "BTC"}, l1 \in PlainLeaves, l2 \in PlainLeaves}
  \cup {Node(None, None, "array", <<>>)}
  \cup {Node(None, None, "object", <<Node("BTC", v, "object", <<l>>)>>) :
           v \in {None, "1m"}, l \in {Leaf(None, None), Leaf("BTC", "1m"), Leaf(None, "1m")}}
Headers ==
  {<<None, "trades", None>>, <<"TRADES", None, None>>, <<None, "candle", None>>,
   <<None, "allMids", None>>, <<"all_mids", "trades", None>>, <<None, "mids", None>>,
   <<None, "userFills", "u1">>, <<None, "userFills", "u2">>, <<None, "userFills", None>>,
   <<None, "pong", None>>, <<None, None, None>>}
Frames == {WsFrame(h[1], h[2], h[3], b) : h \in Headers, b \in Bodies}

RouteOpen == net.steps < MaxRouteSteps

NextRoute ==
  \/ RouteOpen /\ CallConnect
  \/ RouteOpen /\ \E i \in SocketIds : SocketOpens(i)
  \/ RouteOpen /\ \E k \in RouteKeys : CallSubscribe(k)
  \/ RouteOpen /\ \E k \in RouteKeys : CallUnsubscribe(k)
  \/ RouteOpen /\ \E i \in SocketIds : \E data \in Frames : SocketMessage(i, data)

SpecRoute == Init /\ [][NextRoute]_vars

\* Runs of the two sources with the canvas: the synthetic timers fire when
\* they are due, the owner pauses and resumes, the hook subscribes through the
\* client, the component unmounts.
SourceDelays == {60, 2050}  \* 50 + (1 - Math.random())^3 * 2000
SourceTicks == {1000}
SourceBatches == {<<Trade(1, "B", Num(2), Num(25), now)>>}

SourceOpen == obs.steps + net.steps < MaxSourceSteps

InitSources ==
  /\ Mounted
  /\ obs = InitObs
  /\ \E d \in SourceDelays : src = [InitSrc EXCEPT !.timers = <<Timer(StartClock, d)>>]

NextSources ==
  \/ SourceOpen /\ \E d \in SourceTicks : Tick(d)
  \/ SourceOpen /\ AnimationFrame
  \/ SourceOpen /\ \E m \in {"synthetic", "live"} : SetStreamMode(m)
  \/ SourceOpen /\ PauseSynthetic
  \/ SourceOpen /\ \E d \in SourceDelays : ResumeSynthetic(d)
  \/ SourceOpen /\ \E j \in 1 .. Len(src.timers), d \in SourceDelays :
                      SyntheticEmits(j, "buy", 100, 1400, d)
  \/ SourceOpen /\ LiveEnable
  \/ SourceOpen /\ LivePause
  \/ SourceOpen /\ LiveResume
  \/ SourceOpen /\ \E j \in 1 .. Len(src.waiting) : HookContinues(j)
  \/ SourceOpen /\ \E i \in SocketIds : SocketOpens(i)
  \/ SourceOpen /\ \E i \in SocketIds, batch \in SourceBatches :
                      SocketTrades(i, batch, 1400)
  \/ SourceOpen /\ Unmount

SpecSources == InitSources /\ [][NextSources]_vars

\* -------- the canvas driven by a caller that passes values out of range
\* windowSeconds outside the range the slider offers, and trades whose size is
\* negative
WindowMin == 5      \* FlowControls: min={5}
WindowMax == 120    \* FlowControls: max={120}
MisuseWindows == {0 - 5, 0, 5, 10, 300}
MisuseBatches ==
  {<<Trade(1, "B", Num(2), Num(0 - 25), now)>>,
   <<Trade(2, "A", Num(2), Num(25), now)>>}

NextMisuse ==
  \/ \E d \in TickSteps : Tick(d)
  \/ \E sd \in Sides, vol \in Volumes, dur \in Durations : SyntheticOrder(sd, vol, dur)
  \/ \E batch \in MisuseBatches, dur \in Durations : LiveMessage(batch, dur)
  \/ Frame
  \/ \E w \in MisuseWindows : SetWindowSeconds(w)
  \/ \E m \in {"synthetic", "live"} : SetStreamMode(m)

InitMisuse == Mounted /\ obs = [InitObs EXCEPT !.limit = MaxMisuseSteps] /\ src = InitSrc

SpecMisuse == InitMisuse /\ [][NextMisuse]_vars

\* ------------- the live source with the recent-id set at or near capacity
\* The component a minute after mount, in live mode: n trades of size 0 with
\* the ids SeenBase + 1 .. SeenBase + n were ingested and have aged out of the
\* window, their particles are gone, and their ids are all in the set.
SeenBase == 1000
SeenFills == {maxSeenIds - 1, maxSeenIds}
SeenBatches ==
  {<<Trade(t, "B", Num(2), Num(25), now)>> : t \in TradeIds \cup {SeenBase + 1}}

InitSeen ==
  /\ \E n \in SeenFills :
       /\ lastSeenIds = [i \in 1 .. n |-> SeenBase + i]
       /\ counts = [buy |-> n, sell |-> 0]
       /\ obs = [InitObs EXCEPT !.limit = MaxSeenSteps, !.lastOp = "frame",
                                !.spawned = n, !.calls = n, !.expired = n,
                                !.published = FALSE]
  /\ now = StartClock + 60 * 1000
  /\ windowMs \in {w * 1000 : w \in WindowChoices}
  /\ queue = <<>>
  /\ totals = [buy |-> 0, sell |-> 0]
  /\ stats = [buyShare |-> Half, sellShare |-> Half]
  /\ particles = <<>>
  /\ streamMode = "live"
  /\ client = InitClient
  /\ net = InitNet
  /\ src = InitSrc

NextSeen ==
  \/ \E d \in TickSteps : Tick(d)
  \/ \E batch \in SeenBatches, dur \in Durations : LiveMessage(batch, dur)
  \/ Frame

SpecSeen == InitSeen /\ [][NextSeen]_vars

\* ------------------ the ribbon edges for the shares a run of orders reaches
SampleTs == {0, 24, 25, 50, 75, 76, 100}
SeparationScales == {5, 50}   \* separationScale 0.5 and 5 (the default)

\* the runs ingest a series of orders and then sample the edges
NextGeometry ==
  \/ obs.lastOp # "edges" /\ \E sd \in Sides, vol \in Volumes, dur \in Durations :
                                SyntheticOrder(sd, vol, dur)
  \/ \E t \in SampleTs, sc \in SeparationScales : SampleEdges(t, sc)

InitGeometry == Mounted /\ obs = [InitObs EXCEPT !.limit = MaxGeometrySteps] /\ src = InitSrc

SpecGeometry == InitGeometry /\ [][NextGeometry]_vars

\* ----------- the client with subscriptions that come and go over reconnects
BookFrame ==
  WsFrame(None, "l2Book", None, Node(None, None, "array", <<Leaf("BTC", None)>>))
UnsubFrames == {TradesFrame, BookFrame}

NextUnsub ==
  \/ net.steps < MaxUnsubSteps /\ CallConnect
  \/ net.steps < MaxUnsubSteps /\ \E k \in Keys : CallSubscribe(k)
  \/ net.steps < MaxUnsubSteps /\ \E k \in Keys : CallUnsubscribe(k)
  \/ net.steps < MaxUnsubSteps /\ \E i \in SocketIds : SocketOpens(i)
  \/ net.steps < MaxUnsubSteps /\ \E i \in SocketIds : SocketDrops(i)
  \/ net.steps < MaxUnsubSteps /\ \E j \in 1 .. Len(net.timers) : ReconnectFires(j)
  \/ net.steps < MaxUnsubSteps /\ \E i \in SocketIds : \E data \in UnsubFrames : SocketMessage(i, data)

SpecUnsub == Init /\ [][NextUnsub]_vars

\* ------------------------------------------------------------------ claims
Sorted(q) == \A i \in 1 .. Len(q) - 1 : q[i].timestamp <= q[i + 1].timestamp

\* C1: as long as the window length has not been changed, each running sum
\* equals the sum of the volumes of the queued events of its side, and is
\* never negative, after any sequence of ingests and prunes.
C1_SumsMatchQueue ==
  ~obs.windowChanged =>
     /\ totals.buy = SideSum(queue, "buy")
     /\ totals.sell = SideSum(queue, "sell")
     /\ totals.buy >= 0
     /\ totals.sell >= 0

\* both sides were ingested, a prune has just evicted and events remain
C1_Witness ==
  /\ ~obs.windowChanged
  /\ obs.evicted > 0
  /\ queue # <<>>
  /\ counts.buy > 0
  /\ counts.sell > 0

\* C2: once a window-length change has completed, each sum equals the sum of
\* the volumes of the events of its side that remain queued, which are the
\* queued events at or after now - windowMs.
C2_WindowChangeResyncs ==
  obs.lastOp = "window" =>
     /\ totals.buy = SideSum(queue, "buy")
     /\ totals.sell = SideSum(queue, "sell")
     /\ totals.buy = SideSum(Fresh(queue, Cutoff), "buy")
     /\ totals.sell = SideSum(Fresh(queue, Cutoff), "sell")

\* C3: right after a window-length change neither sum exceeds what a full
\* recompute over the queued events yields for its side.
C3_ChangeNeverOvercounts ==
  obs.lastOp = "window" =>
     /\ totals.buy <= RecomputeTotals(queue, totals, Cutoff).buy
     /\ totals.sell <= RecomputeTotals(queue, totals, Cutoff).sell
     /\ totals.buy <= SideSum(queue, "buy")
     /\ totals.sell <= SideSum(queue, "sell")

\* a shrink that evicted an event and left others queued
C3_Witness ==
  /\ obs.lastOp = "window"
  /\ obs.evicted > 0
  /\ queue # <<>>

\* C4: right after a prune no queued event is older than now - windowMs and
\* no such event is counted in either sum.
C4_PruneLeavesNoStale ==
  obs.prunedAt = now =>
     /\ \A i \in 1 .. Len(queue) : queue[i].timestamp >= Cutoff
     /\ totals.buy <= SideSum(Fresh(queue, Cutoff), "buy")
     /\ totals.sell <= SideSum(Fresh(queue, Cutoff), "sell")

\* C5: the window queue is ordered by timestamp ascending in every state.
C5_QueueSorted == Sorted(queue)

\* C6: the stored (and published) share has buyShare in [0,1] and
\* sellShare = 1 - buyShare after every share computation.
C6_ShareInUnitInterval ==
  /\ stats.buyShare \in 0 .. ShareScale
  /\ stats.sellShare = ShareScale - stats.buyShare

\* a share away from the neutral value has just been stored and published
C6_Witness ==
  /\ obs.published
  /\ obs.lastOp \in {"synthetic", "live", "frame", "window"}
  /\ stats.buyShare # Half
  /\ obs.raw # obs.next

\* C7 as stated: with both sums 0 the share computation uses rawShare = 0.5
\* and returns buyShare exactly 0.5.
C7_EmptyWindowGivesHalf ==
  totals.buy + totals.sell = 0 => (obs.raw = Half /\ obs.next = Half)

\* C7 amended: with both sums 0 the share computation uses rawShare = 0.5
\* (no division) and returns 0.2 * 0.5 + 0.8 * previous buyShare, which is
\* no further from 0.5 than the previous value and is 0.5 when that was 0.5.
C7_EmptyWindowIsNeutral ==
  totals.buy + totals.sell = 0 =>
     /\ obs.raw = Half
     /\ 10 * obs.next - (emaAlphaTenths * Half + (10 - emaAlphaTenths) * obs.prev)
          \in -5 .. 5
     /\ Abs(obs.next - Half) <= Abs(obs.prev - Half)
     /\ (obs.prev = Half => obs.next = Half)

\* every trade has aged out and the stored share was not neutral
C7_Witness ==
  /\ totals.buy + totals.sell = 0
  /\ queue = <<>>
  /\ obs.evicted > 0
  /\ obs.prev # Half

\* C8: a prune that follows a prune at the same clock value, with no event
\* ingested in between, leaves the queue and both sums as they were.
C8_PruneIdempotent ==
  [][(obs.prunedAt = now /\ obs'.lastOp = "frame" /\ obs'.steps = obs.steps + 1)
       => (queue' = queue /\ totals' = totals)]_vars

\* a second prune in succession, after a first one that evicted
C8_Witness ==
  /\ obs.lastOp = "frame"
  /\ obs.repeated
  /\ obs.prevEvicted > 0

\* C10: a trade id fed any number of times while it is in the recent-id set
\* has caused exactly one onOrderReceived call.
C10_DuplicateIdSuppressed ==
  \A tid \in TradeIds :
     (obs.delivered[tid] >= 1 /\ tid \in Range(lastSeenIds))
        => obs.ingested[tid] = 1

\* trade 1 came twice in one frame and once more in another frame
C10_Witness ==
  /\ obs.delivered[1] >= 3
  /\ obs.ingested[1] = 1

\* C9: the particle pool never holds more than maxParticles particles; it is
\* in spawn order; an overflow removes only the oldest entries and only as
\* many as needed; a frame removes only expired particles and leaves none;
\* the particle just spawned is the last one of the pool.
C9_PoolBounded ==
  /\ Len(particles) <= maxParticles
  /\ \A i \in 1 .. Len(particles) - 1 : particles[i].seq < particles[i + 1].seq
  /\ particles # <<>> => particles[1].seq > obs.maxEvictedSeq
  /\ (obs.justSpawned /\ obs.lastGone > 0) => Len(particles) = maxParticles
  /\ obs.justSpawned =>
        (particles # <<>> /\ particles[Len(particles)].seq = obs.spawned)
  /\ ~obs.droppedAlive
  /\ obs.lastOp = "frame" =>
        \A i \in 1 .. Len(particles) : Alive(particles[i], now - StartClock)

\* the pool has overflowed, a later frame has discarded expired particles, and
\* live particles remain
C9_Witness ==
  /\ obs.maxEvictedSeq > 0
  /\ obs.expired > 0
  /\ obs.lastOp = "frame"
  /\ particles # <<>>
  /\ Len(particles) < maxParticles

\* C11: with window 10 s and stored share 0.5, ingesting one Buy of volume 100
\* gives raw share 1.0 and smoothed (stored) buyShare 0.2 * 1.0 + 0.8 * 0.5 = 0.6.
C11_FirstBuyGivesSixTenths ==
  (/\ windowMs = 10 * 1000
   /\ obs.lastOp = "synthetic"
   /\ obs.calls = 1
   /\ obs.prev = Half
   /\ Len(queue) = 1 /\ queue[1].side = "buy" /\ queue[1].volume = 100)
  => /\ obs.raw = ShareScale
     /\ obs.next = RoundDiv(6 * ShareScale, 10)
     /\ stats.buyShare = RoundDiv(6 * ShareScale, 10)
     /\ stats.sellShare = RoundDiv(4 * ShareScale, 10)

\* the first event of a run with a 10 s window is a Buy of volume 100
C11_Witness ==
  /\ windowMs = 10 * 1000
  /\ obs.lastOp = "synthetic"
  /\ obs.calls = 1
  /\ obs.prev = Half
  /\ Len(queue) = 1 /\ queue[1].side = "buy" /\ queue[1].volume = 100
  /\ totals = [buy |-> 100, sell |-> 0]

\* C12 (as stated): after the lone trade has aged out, buyShare eventually
\* reaches 0.5; so a share computation on the empty window that leaves the
\* stored share where it is can only happen at 0.5.
C12_ReachesHalf ==
  (obs.calls = 1 /\ obs.lastOp = "frame" /\ queue = <<>> /\ ~obs.published)
     => stats.buyShare = Half

\* C12 (amended): after a frame, the lone trade is out of the queue as soon as
\* the window has elapsed and both sums are 0 again; from then on every share
\* computation uses raw share 0.5 and yields a value on the same side of 0.5 as
\* the stored share and no further from 0.5; the stored share takes that value
\* only while it differs by more than 0.001, so it stops within about 0.005
\* of 0.5 and does not reach 0.5 unless it already was 0.5.
C12_DecaysTowardHalf ==
  (obs.calls = 1 /\ obs.lastOp = "frame") =>
     /\ \A i \in 1 .. Len(queue) : queue[i].timestamp >= Cutoff
     /\ queue = <<>> =>
          /\ totals = [buy |-> 0, sell |-> 0]
          /\ obs.raw = Half
          /\ Abs(obs.next - Half) <= Abs(obs.prev - Half)
          /\ obs.prev >= Half => obs.next >= Half
          /\ obs.prev <= Half => obs.next <= Half
          /\ stats.buyShare = IF obs.published THEN obs.next ELSE obs.prev
          /\ obs.published => Abs(obs.next - obs.prev) > Epsilon
          /\ ~obs.published => Abs(obs.prev - Half) <= 5 * Epsilon + 5
          /\ obs.prev # Half => stats.buyShare # Half

\* the frame that evicts the lone trade, 10 s window: the sums are back at 0 and
\* the stored share has moved toward 0.5
C12_Witness ==
  /\ windowMs = 10 * 1000
  /\ obs.calls = 1
  /\ obs.lastOp = "frame"
  /\ obs.evicted = 1
  /\ queue = <<>>
  /\ obs.published
  /\ Abs(stats.buyShare - Half) < Abs(obs.prev - Half)

C14_DropThenResubscribe ==
  [][/\ (net'.lastOp = "drop" /\ client.status = "connected"
                              /\ net'.sock = client.ws) =>
          /\ client'.status = "degraded"
          /\ net'.scheduled = reconnectDelay
          /\ net'.timers = Append(net.timers, reconnectDelay)
          /\ client'.subscriptions = client.subscriptions
     /\ net'.lastOp = "reconnect" => client'.subscriptions = client.subscriptions
     /\ (net'.lastOp = "open" /\ ~net.sockets[net'.sock].resolved
                              /\ net'.sock = client.ws) =>
          /\ client'.status = "connected"
          /\ client'.subscriptions = client.subscriptions
          /\ \A k \in client.subscriptions : net'.sockets[net'.sock].sent[k] = 1]_vars

\* C15: a connect() call made while the status is connecting or connected
\* creates no socket and returns the pending promise of the attempt in flight
\* or a resolved promise.
C15_ConnectIdempotent ==
  [][(net'.lastOp = "connect" /\ client.status \in {"connecting", "connected"}) =>
       /\ Len(net'.sockets) = Len(net.sockets)
       /\ net'.returned.kind \in {"promise", "resolved"}
       /\ net'.returned.kind = "promise" => net'.returned.id = client.connectPromise]_vars

\* C16: at most one socket of the client is connecting or open.
C16_OneLiveSocket ==
  Cardinality({i \in SocketIds :
                 net.sockets[i].readyState \in {"connecting", "open"}}) <= 1

\* C17: whenever a socket opens, the status becomes connected, the attempt
\* counter is 0, a new heartbeat interval runs, and each registered
\* subscription has been sent exactly once on that socket.
C17_OpenEstablishes ==
  [][net'.lastOp = "open" =>
       /\ client'.status = "connected"
       /\ client'.reconnectAttempts = 0
       /\ net'.beatsMade = net.beatsMade + 1
       /\ client'.heartbeatInterval \in net'.beats
       /\ \A k \in client'.subscriptions : net'.sockets[net'.sock].sent[k] = 1]_vars

\* C18: whenever the client's current socket fails to open or is closed by the
\* other side, no heartbeat interval runs afterwards, the attempt counter has
\* grown by one and one reconnect is scheduled with
\* min(reconnectDelay * 2^(attempts - 1), maxReconnectDelay).
C18_BackoffOnAbnormalClose ==
  [][(net'.lastOp \in {"drop", "fail"} /\ net'.sock = client.ws) =>
       /\ net'.beats = {}
       /\ client'.reconnectAttempts = client.reconnectAttempts + 1
       /\ net'.scheduled = ReconnectDelay(client.reconnectAttempts + 1)
       /\ net'.timers = Append(net.timers, net'.scheduled)]_vars

\* C19: right after disconnect() the registry is empty, and from a disconnect()
\* until the caller's next connect() the status is offline and no heartbeat
\* interval runs.
C19_DisconnectIsFinal ==
  /\ net.lastOp = "disconnect" => client.subscriptions = {}
  /\ net.idle =>
       /\ client.status = "offline"
       /\ net.beats = {}

\* C20: when the connect timeout of an attempt fires, or the socket fails to
\* open, the promise of that attempt is rejected and the status is degraded.
C20_OpenFailureIsDegraded ==
  net.lastOp \in {"timeout", "fail"} =>
     /\ net.sockets[net.sock].promise = "rejected"
     /\ client.status = "degraded"

\* C21: in a run without disconnect(), after a connect timeout, a failed open
\* or a close of the client's socket by the other side, the status is degraded
\* and a reconnect timer is pending.
C21_FailureSchedulesRetry ==
  [][(~net'.everDisconnected /\ net'.lastOp \in {"timeout", "fail", "drop"}) =>
       /\ client'.status = "degraded"
       /\ Len(net'.timers) >= 1]_vars

RECURSIVE DeclaredCoins(_)
\* the coins declared anywhere in a frame, whatever the nesting
DeclaredCoins(node) ==
  (IF node.coin # None THEN {NormCoin(node.coin)} ELSE {})
  \cup UNION {DeclaredCoins(node.kids[n]) : n \in 1 .. Len(node.kids)}

RECURSIVE DeclaredIntervals(_)
\* the intervals declared anywhere in a frame, whatever the nesting
DeclaredIntervals(node) ==
  (IF node.interval # None THEN {node.interval} ELSE {})
  \cup UNION {DeclaredIntervals(node.kids[n]) : n \in 1 .. Len(node.kids)}

\* C22: a frame leaves the client state as it was, and the callback of a
\* registered subscription (one without a user) is invoked exactly when the
\* frame's type equals the subscription's type after mapType and the
\* subscription's coin and interval, when it has them, are declared somewhere
\* in the frame.
C22_RoutesByTypeAndSymbol ==
  [][net'.lastOp = "message" =>
       /\ client' = client
       /\ net'.invoked \subseteq client.subscriptions
       /\ \A k \in client.subscriptions :
            Payload(k).user = None =>
              (k \in net'.invoked <=>
                 /\ RawType(net'.frame) # None
                 /\ MapType(Payload(k).type) = MapType(RawType(net'.frame))
                 /\ Payload(k).coin # None =>
                      NormCoin(Payload(k).coin) \in DeclaredCoins(net'.frame)
                 /\ Payload(k).interval # None =>
                      Payload(k).interval \in DeclaredIntervals(net'.frame))]_vars

\* C23: a live frame of one trade whose size is a number, arriving while no
\* trade id is remembered, is ingested as one event whose volume is size x
\* price, or the size alone when the price is not a number, and whose side is
\* buy exactly when the side string starts with b.
C23_VolumeIsNotionalOrSize ==
  [][(obs'.lastOp = "live" /\ obs'.frameLen = 1 /\ obs'.frameFirst.sized
        /\ lastSeenIds = <<>>) =>
       /\ obs'.calls = obs.calls + 1
       /\ queue' # <<>>
       /\ queue'[Len(queue')].volume = obs'.frameFirst.volume
       /\ queue'[Len(queue')].side = obs'.frameFirst.side]_vars

\* C24: while a source is paused (pauseStream() returned, once or several
\* times, and resumeStream() was not called since) that source does not call
\* the ingest callback, and a pauseStream() call leaves the queue, the sums,
\* the counts and the particle pool as they were.
C24_PauseStopsSource ==
  [][/\ (obs'.steps = obs.steps + 1 /\ obs'.lastOp = "synthetic") =>
          ~src.paused.synthetic
     /\ (obs'.steps = obs.steps + 1 /\ obs'.lastOp = "live") => ~src.paused.live
     /\ ((obs'.lastOp = "pause" /\ obs'.steps = obs.steps + 1)
           \/ (net'.lastOp = "pause" /\ net'.steps = net.steps + 1)) =>
          UNCHANGED <<queue, totals, counts, particles>>]_vars

\* C25: after every step of the synthetic source at most one emission timer is
\* pending, and none while the source is paused or not streaming; a
\* resumeStream() of the mounted stream leaves exactly one timer, due a newly
\* drawn delay after the call; an emission arms exactly one successor, due a
\* newly drawn delay after the emission.
C25_OneFreshTimer ==
  [][/\ Len(src'.timers) <= 1
     /\ (src'.paused.synthetic \/ ~src'.streaming) => src'.timers = <<>>
     /\ (obs'.lastOp = "resume" /\ obs'.steps = obs.steps + 1 /\ src.subscribed) =>
          /\ Len(src'.timers) = 1
          /\ src'.timers[1].delay \in SourceDelays
          /\ src'.timers[1].due = now + src'.timers[1].delay
     /\ (obs'.steps = obs.steps + 1 /\ obs'.lastOp = "synthetic") =>
          /\ src'.armed = 1
          /\ Len(src'.timers) = 1
          /\ src'.timers[1].delay \in SourceDelays
          /\ src'.timers[1].due = now + src'.timers[1].delay]_vars

\* the stream emitted, was paused while its next timer had 1050 ms left of
\* 2050, and was resumed: the timer now pending has a full new delay
C25_Witness ==
  /\ obs.lastOp = "resume"
  /\ obs.calls >= 1
  /\ src.streaming
  /\ src.remainder = 1050
  /\ Len(src.timers) = 1
  /\ src.timers[1].due = now + src.timers[1].delay
  /\ src.timers[1].due - now # src.remainder

\* C26: switching the source mode changes only which source's later events
\* are ingested: the switch itself leaves the queue, the sums, the counts, the
\* share and the particles alone, an emission of the source that is not
\* selected leaves the queue alone, and no step removes from the queue an
\* event that has not aged out of the window.
InQueue(q, e) == \E n \in 1 .. Len(q) : q[n] = e

C26_ModeSwitchKeepsWindow ==
  [][/\ (obs'.steps = obs.steps + 1 /\ obs'.lastOp = "mode") =>
          /\ streamMode' # streamMode
          /\ UNCHANGED <<queue, totals, counts, stats, particles, windowMs>>
     /\ (obs'.steps = obs.steps + 1 /\ obs'.lastOp = "synthetic"
           /\ streamMode = "live") => UNCHANGED <<queue, totals, counts>>
     /\ (obs'.steps = obs.steps + 1 /\ obs'.lastOp = "live"
           /\ streamMode = "synthetic") => UNCHANGED <<queue, totals, counts>>
     /\ \A n \in 1 .. Len(queue) :
          queue[n].timestamp >= now' - windowMs' => InQueue(queue', queue[n])
     /\ totals'.buy = SideSum(queue', "buy")
     /\ totals'.sell = SideSum(queue', "sell")]_vars

\* a synthetic event was in the window when the mode went to live, and a live
\* trade has joined it: both are counted
C26_Witness ==
  /\ streamMode = "live"
  /\ obs.lastOp = "live"
  /\ Len(queue) = 2
  /\ queue[1].id >= GenBase
  /\ queue[2].id < GenBase
  /\ totals.buy + totals.sell = queue[1].volume + queue[2].volume
  /\ queue[2].volume > 0

\* C27: once the component has unmounted no timer of the synthetic source or
\* of the client is pending, the animation callback is not registered and no
\* frame runs, every socket of the live client is closing or closed, no
\* heartbeat runs and the registry of subscriptions is empty.
C27_TeardownReleasesAll ==
  [][~src'.mounted =>
       /\ src'.timers = <<>>
       /\ ~src'.animation
       /\ ~(obs'.steps = obs.steps + 1 /\ obs'.lastOp \in {"frame", "synthetic"})
       /\ net'.timers = <<>>
       /\ net'.beats = {}
       /\ \A i \in 1 .. Len(net'.sockets) :
             net'.sockets[i].readyState \in {"closing", "closed"}
       /\ client'.subscriptions = {}]_vars

\* C28: a window length the caller passes is brought into the range
\* WindowMin .. WindowMax seconds before it serves as the prune cutoff, and
\* every event in the queue has a volume of at least 0.
C28_MisuseIsClamped ==
  [][/\ (obs'.steps = obs.steps + 1 /\ obs'.lastOp = "window") =>
          /\ windowMs' >= WindowMin * 1000
          /\ windowMs' <= WindowMax * 1000
     /\ \A n \in 1 .. Len(queue') : queue'[n].volume >= 0]_vars

\* C29: a share computation stores the new share and hands it to the stats
\* callback exactly when the window length has just changed (force) or the
\* new smoothed buyShare differs from the stored one by more than 0.001;
\* otherwise the stored share stays as it was.
C29_PublishesOnlyOnChange ==
  [][(obs'.steps = obs.steps + 1 /\ obs'.lastOp \in {"frame", "synthetic", "window"}) =>
       /\ obs'.prev = stats.buyShare
       /\ obs'.published <=>
             (obs'.lastOp = "window" \/ Abs(obs'.next - stats.buyShare) > Epsilon)
       /\ obs'.published =>
             stats' = [buyShare |-> obs'.next, sellShare |-> ShareScale - obs'.next]
       /\ ~obs'.published => stats' = stats]_vars

\* a frame whose new share is off the stored one by no more than 0.001 and not
\* equal to it: nothing is stored
C29_Witness ==
  /\ obs.lastOp = "frame"
  /\ ~obs.published
  /\ obs.next # obs.prev
  /\ Abs(obs.next - obs.prev) <= Epsilon
  /\ stats.buyShare = obs.prev

\* C30: a frame is one step that prunes the queue as it stands (every event
\* ingested so far is in it), computes the share from the sums the prune
\* left, and then advances the particle pool as it stands; a synthetic
\* ingestion is one step in which the event joins the queue, its side's sum
\* and count grow, its particle is spawned and the share is computed from
\* the new sums.
C30_FrameAfterIngestion ==
  [][/\ (obs'.steps = obs.steps + 1 /\ obs'.lastOp = "frame") =>
          /\ \E k \in 0 .. Len(queue) :
               /\ queue' = SubSeq(queue, k + 1, Len(queue))
               /\ \A n \in 1 .. k : queue[n].timestamp < Cutoff
               /\ queue' # <<>> => queue'[1].timestamp >= Cutoff
               /\ totals'.buy = Max(0, totals.buy - SideSum(SubSeq(queue, 1, k), "buy"))
               /\ totals'.sell = Max(0, totals.sell - SideSum(SubSeq(queue, 1, k), "sell"))
          /\ obs'.raw = RawBuy(totals')
          /\ obs'.next = SmoothedBuy(obs'.raw, stats.buyShare)
          /\ \A n \in 1 .. Len(particles) :
               Alive(particles[n], now - StartClock)
                 <=> InQueue(particles', particles[n])
          /\ Len(particles') <= Len(particles)
          /\ UNCHANGED counts
     /\ (obs'.steps = obs.steps + 1 /\ obs'.lastOp = "synthetic") =>
          /\ queue' # <<>>
          /\ queue'[Len(queue')].id = GenBase + obs.drawn
          /\ counts'.buy + counts'.sell = counts.buy + counts.sell + 1
          /\ particles' # <<>>
          /\ particles'[Len(particles')].id = GenBase + obs.drawn
          /\ obs'.raw = RawBuy(totals')
          /\ obs'.next = SmoothedBuy(obs'.raw, stats.buyShare)]_vars

\* a frame that evicts an old event while a later one of the other side
\* stays, and that retires the particles of both: the share of that frame
\* comes from the sums without the old event
C30_Witness ==
  /\ obs.lastOp = "frame"
  /\ obs.evicted > 0
  /\ queue # <<>>
  /\ queue[Len(queue)].id >= GenBase
  /\ particles = <<>>
  /\ obs.expired > 0
  /\ obs.raw = RawBuy(totals)
  /\ obs.raw \in {0, ShareScale}
  /\ counts.buy > 0
  /\ counts.sell > 0

\* C31: a synthetic event handed to onOrderReceived is appended once to the
\* queue, its volume is added once to the sum of its side, the count of its
\* side grows by one and one particle is spawned for it; the sum of the other
\* side changes only by what the prune of the same call removes, and the
\* count of the other side does not change.  A live frame raises the counts
\* and the number of particles spawned by the number of its trades that
\* reach onOrderReceived.
Other(sd) == IF sd = "buy" THEN "sell" ELSE "buy"

C32_SeenIdsBounded ==
  [][(obs'.steps = obs.steps + 1 /\ obs'.lastOp = "live") =>
       /\ Len(lastSeenIds') <= maxSeenIds
       /\ \A i, j \in 1 .. Len(lastSeenIds') :
             lastSeenIds'[i] = lastSeenIds'[j] => i = j
       /\ obs'.calls = obs.calls => lastSeenIds' = lastSeenIds
       /\ obs'.calls = obs.calls + 1 =>
             LET id == lastSeenIds'[Len(lastSeenIds')]
                 a  == Append(lastSeenIds, id)
             IN  /\ ~SeenBefore(lastSeenIds, id)
                 /\ queue' # <<>> /\ queue'[Len(queue')].id = id
                 /\ IF Len(a) > maxSeenIds
                    THEN /\ Len(lastSeenIds') = keepSeenIds
                         /\ lastSeenIds' = SubSeq(a, Len(a) - keepSeenIds + 1, Len(a))
                    ELSE lastSeenIds' = a]_vars

\* the 501st id has just been added: 400 ids are left, the new one last, and
\* its trade is in the queue
C32_Witness ==
  /\ obs.lastOp = "live"
  /\ Len(lastSeenIds) = keepSeenIds
  /\ lastSeenIds[keepSeenIds] \in TradeIds
  /\ lastSeenIds[1] = SeenBase + maxSeenIds - keepSeenIds + 2
  /\ queue # <<>>
  /\ queue[Len(queue)].id = lastSeenIds[keepSeenIds]

\* C33: in the edges calcEdgesAt returns, either band is at least
\* minBandHeight (6 px) thick, and the upper edge of the sell band lies below
\* the lower edge of the buy band by the separation, which is 0 for t < 0.25
\* and separationMax for t > 0.75.
C33_BandsKeepMinimumAndGap ==
  obs.lastOp = "edges" =>
     /\ obs.edges.buyBot - obs.edges.buyTop >= 2 * minBandHeight * ShareScale
     /\ obs.edges.sellBot - obs.edges.sellTop >= 2 * minBandHeight * ShareScale
     /\ obs.sample.t < 25 => obs.edges.sellTop - obs.edges.buyBot = 0
     /\ obs.sample.t > 75 =>
          obs.edges.sellTop - obs.edges.buyBot = 2 * obs.sample.separationMax
     /\ obs.edges.sellTop - obs.edges.buyBot >= 0
     /\ obs.edges.sellTop - obs.edges.buyBot <= 2 * obs.sample.separationMax

\* the edges at t = 1 for a buy share under 7.5 %: the buy band is held at
\* 6 px and the bands are separationMax apart
C33_Witness ==
  /\ obs.lastOp = "edges"
  /\ obs.sample.t = 100
  /\ obs.sample.buyShare * totalFlowHeight < minBandHeight * ShareScale
  /\ obs.edges.buyBot - obs.edges.buyTop = 2 * minBandHeight * ShareScale
  /\ obs.edges.sellTop - obs.edges.buyBot = 2 * obs.sample.separationMax
  /\ obs.sample.separationMax > 0

\* C34: the two band heights calcEdgesAt computes add up to totalFlowHeight
\* (80 px) for every buyShare.
C34_WidthConserved ==
  obs.lastOp = "edges" =>
     (obs.edges.buyBot - obs.edges.buyTop) + (obs.edges.sellBot - obs.edges.sellTop)
        = 2 * totalFlowHeight * ShareScale

\* C35: a subscribe() of the live hook whose connect() settles after
\* pauseStream() or the cleanup has run registers nothing and delivers
\* nothing; and whenever no subscribe() is waiting, the registry holds the
\* hook's trades subscription exactly if the hook is mounted, enabled and not
\* paused.
C35_PausedWhileConnecting ==
  [][/\ (net'.lastOp = "continue" /\ net'.steps = net.steps + 1
           /\ (src.paused.live \/ ~src.mounted)) =>
          "trades:BTC" \notin client'.subscriptions
     /\ (obs'.steps = obs.steps + 1 /\ obs'.lastOp = "live") =>
          (~src.paused.live /\ src.mounted)
     /\ src'.waiting = <<>> =>
          ("trades:BTC" \in client'.subscriptions
             <=> (src'.mounted /\ src'.enabled /\ ~src'.paused.live))]_vars

\* C36: after a disconnect(), once the caller has called connect() again and
\* the client's current socket is open, a close of that socket by the other
\* side at a time when no close asked for by disconnect() is pending is
\* abnormal: the status becomes degraded, the attempt counter grows by one and
\* a reconnect is scheduled.
C36_EarlyDisconnectForgotten ==
  [][(/\ net'.lastOp = "drop" /\ net'.steps = net.steps + 1
      /\ net'.sock = client.ws
      /\ net.everDisconnected /\ ~net.idle
      /\ \A i \in SocketIds : net.sockets[i].readyState # "closing") =>
       /\ client'.status = "degraded"
       /\ client'.reconnectAttempts = client.reconnectAttempts + 1
       /\ net'.scheduled > 0
       /\ net'.timers = Append(net.timers, net'.scheduled)]_vars

\* C37: at most one heartbeat interval runs, and one runs only while a socket
\* of the client is open; a step that starts an interval does not replace
\* the handle of an interval that is still running.
C37_OneHeartbeat ==
  [][/\ Cardinality(net'.beats) <= 1
     /\ net'.beats # {} =>
          \E i \in 1 .. Len(net'.sockets) : net'.sockets[i].readyState = "open"
     /\ net'.beatsMade > net.beatsMade => client.heartbeatInterval \notin net.beats
     /\ net'.beats # {} => client'.heartbeatInterval \in net'.beats]_vars

\* C38: isConnected is true exactly when the client's current socket is open;
\* when that socket opens, even after its connect timeout has fired, the
\* flag becomes true, a heartbeat interval is started and every registered
\* subscription is sent on it; when it closes the flag becomes false.
C38_ConnectedMeansOpen ==
  [][/\ client'.isConnected <=>
          (client'.ws # 0 /\ net'.sockets[client'.ws].readyState = "open")
     /\ (net'.lastOp = "open" /\ net'.steps = net.steps + 1
           /\ net'.sock = client.ws) =>
          /\ client'.isConnected
          /\ net'.beatsMade = net.beatsMade + 1
          /\ \A k \in client'.subscriptions : net'.sockets[net'.sock].sent[k] >= 1
     /\ (net'.lastOp \in {"drop", "closed"} /\ net'.steps = net.steps + 1
           /\ net'.sock = client.ws) => ~client'.isConnected]_vars

\* C39: unsubscribe(key) removes the key from the registry and leaves the
\* other keys in it; it sends one unsubscribe message if the key was
\* registered and the client's socket is open, and none otherwise; a frame
\* invokes only callbacks of registered keys, and a socket that opens is sent
\* the payloads of the registered keys and no others.
C39_UnsubscribeRemoves ==
  [][/\ (net'.lastOp = "unsubscribe" /\ net'.steps = net.steps + 1) =>
          \E k \in Keys :
            /\ client'.subscriptions = client.subscriptions \ {k}
            /\ Len(net'.sockets) = Len(net.sockets)
            /\ \A i \in SocketIds :
                 /\ net'.sockets[i].sent = net.sockets[i].sent
                 /\ net'.sockets[i].unsent =
                      IF /\ i = client.ws
                         /\ net.sockets[i].readyState = "open"
                         /\ k \in client.subscriptions
                      THEN [net.sockets[i].unsent EXCEPT ![k] = @ + 1]
                      ELSE net.sockets[i].unsent
     /\ (net'.lastOp = "message" /\ net'.steps = net.steps + 1) =>
          /\ net'.invoked \subseteq client.subscriptions
          /\ client'.subscriptions = client.subscriptions
     /\ (net'.lastOp = "open" /\ net'.steps = net.steps + 1) =>
          \A k \in Keys :
            k \notin client.subscriptions =>
              net'.sockets[net'.sock].sent[k] = net.sockets[net'.sock].sent[k]
     /\ (net'.lastOp \in {"drop", "reconnect", "connect"}
           /\ net'.steps = net.steps + 1) =>
          client'.subscriptions = client.subscriptions]_vars

\* trades was subscribed on one socket and unsubscribed there, the book
\* subscription stayed; after a reconnect the new socket was sent the book
\* payload only
C39_Witness ==
  /\ net.lastOp = "open"
  /\ Len(net.sockets) = 2
  /\ client.ws = 2
  /\ client.subscriptions = {"l2Book:BTC"}
  /\ net.sockets[1].sent["trades:BTC"] = 1
  /\ net.sockets[2].sent["trades:BTC"] = 0
  /\ net.sockets[2].sent["l2Book:BTC"] = 1

====
